---- MODULE Spec2Model ----
(***************************************************************************)
(* TaskNotes CLI: the filter-expression parser (lib/filter-parser.js) and  *)
(* the client-side evaluator (lib/api.js, queryTasks and below).           *)
(*                                                                         *)
(* A JavaScript string is a sequence of one-character strings, so that     *)
(* the tokenizer's character loop, toUpperCase/toLowerCase, includes and   *)
(* the relational operators work on it as they do in the code.             *)
(* A JavaScript value is a record tagged by its kind:                      *)
(*   [k |-> "str", s |-> <<chars>>]   a string                             *)
(*   [k |-> "num", m |-> i, x |-> j]  the number i * 10^j                  *)
(*   [k |-> "null"]  [k |-> "undef"]  null, undefined (absent property)    *)
(*   [k |-> "arr", a |-> <<strings>>] an array of strings                  *)
(***************************************************************************)
EXTENDS Integers, Sequences, FiniteSets, TLC

VARIABLES
    expression,   \* the filter string handed to parse (list.js: options.filter)
    pc,           \* "start" | "tokenizing" | "string" | "word" | "tokenized" |
                  \* "parsed" | "failed" | "listed" | "crashed" | "printed"
    pos,          \* tokenize: its index i, of the next character (from 0)
    lexed,        \* tokenize: its array tokens, the tokens pushed so far
    opener,       \* tokenize: its local quote, the character that opened the string
    buffer,       \* tokenize: its local value, the text of the string or word so far
    filterQuery,  \* the tree parse returned (or one built by another producer)
    error,        \* the Error parse threw, NoError when it returned
    clock,        \* what Date.now() returns during the run
    random,       \* what the successive Math.random() calls return
    tasks,        \* the task records GET /api/tasks returns
    listing,      \* what queryTasks returned (list.js: result)
    jsonOutput    \* the data object `list --json` prints

vars == <<expression, pc, pos, lexed, opener, buffer, filterQuery, error, clock, random, tasks, listing,
          jsonOutput>>

(***************************************************************************)
(* Characters                                                              *)
(***************************************************************************)
Lower == <<"a","b","c","d","e","f","g","h","i","j","k","l","m",
           "n","o","p","q","r","s","t","u","v","w","x","y","z">>
Upper == <<"A","B","C","D","E","F","G","H","I","J","K","L","M",
           "N","O","P","Q","R","S","T","U","V","W","X","Y","Z">>
Digits == <<"0","1","2","3","4","5","6","7","8","9">>

Range(f) == {f[i] : i \in DOMAIN f}

IndexIn(seq, c) == CHOOSE i \in DOMAIN seq : seq[i] = c

\* String.prototype.toUpperCase / toLowerCase, one character
UpperChar(c) == IF c \in Range(Lower) THEN Upper[IndexIn(Lower, c)] ELSE c
LowerChar(c) == IF c \in Range(Upper) THEN Lower[IndexIn(Upper, c)] ELSE c

toUpperCase(s) == [i \in DOMAIN s |-> UpperChar(s[i])]
toLowerCase(s) == [i \in DOMAIN s |-> LowerChar(s[i])]

\* /\s/ on the characters the model writes
IsSpace(c) == c \in {" ", "\t", "\n"}

\* /[a-zA-Z0-9_.-]/
IsWordChar(c) == c \in Range(Lower) \cup Range(Upper) \cup Range(Digits) \cup {"_", ".", "-"}

\* String.prototype.trim
RECURSIVE TrimLeft(_)
TrimLeft(s) == IF s # <<>> /\ IsSpace(Head(s)) THEN TrimLeft(Tail(s)) ELSE s

RECURSIVE TrimRight(_)
TrimRight(s) ==
    IF s # <<>> /\ IsSpace(s[Len(s)]) THEN TrimRight(SubSeq(s, 1, Len(s) - 1)) ELSE s

trim(s) == TrimRight(TrimLeft(s))

(***************************************************************************)
(* Errors.  message is the literal text of the Error, detail the           *)
(* interpolated part; wrapped is parse's "Filter parsing error: " prefix.  *)
(***************************************************************************)
NoError == [message |-> "", detail |-> <<>>, wrapped |-> FALSE]
Err(m, d) == [message |-> m, detail |-> d, wrapped |-> FALSE]

(***************************************************************************)
(* tokenize                                                                *)
(***************************************************************************)
Token(t, v) == [type |-> t, value |-> v]

\* the inner loop with the backslash read as an ordinary character
RECURSIVE ReadQuotedNoEscape(_, _, _, _)
ReadQuotedNoEscape(e, i, quote, value) ==
    IF i <= Len(e) /\ e[i] # quote
    THEN ReadQuotedNoEscape(e, i + 1, quote, Append(value, e[i]))
    ELSE [i |-> i, value |-> value]

\* the inner loop of a quoted string: from index i (after the opening quote)
\* to the closing quote or the end of the input
RECURSIVE ReadQuoted(_, _, _, _)
ReadQuoted(e, i, quote, value) ==
    IF i <= Len(e) /\ e[i] # quote
    THEN IF e[i] = "\\" /\ i + 1 <= Len(e)
         THEN ReadQuoted(e, i + 2, quote, Append(value, e[i + 1]))
         ELSE ReadQuoted(e, i + 1, quote, Append(value, e[i]))
    ELSE [i |-> i, value |-> value]

\* the inner loop of a word: the maximal run of word characters from i
RECURSIVE ReadWord(_, _, _)
ReadWord(e, i, value) ==
    IF i <= Len(e) /\ IsWordChar(e[i])
    THEN ReadWord(e, i + 1, Append(value, e[i]))
    ELSE [i |-> i, value |-> value]

\* the word as a connective only when written in capitals
WordTokenCapitals(value) ==
    IF value = <<"A","N","D">> \/ value = <<"O","R">>
    THEN Token("LOGICAL", toLowerCase(value))
    ELSE Token("IDENTIFIER", value)

WordToken(value) ==
    LET upperValue == toUpperCase(value)
    IN  IF upperValue = <<"A","N","D">> \/ upperValue = <<"O","R">>
        THEN Token("LOGICAL", toLowerCase(upperValue))
        ELSE Token("IDENTIFIER", value)

\* the while loop of tokenize, from index i with the tokens pushed so far
RECURSIVE TokenizeFrom(_, _, _)
TokenizeFrom(e, i, tokens) ==
    IF i > Len(e) THEN [ok |-> TRUE, tokens |-> tokens, error |-> NoError]
    ELSE LET char == e[i] IN
         IF IsSpace(char) THEN TokenizeFrom(e, i + 1, tokens)
         ELSE IF char = "(" \/ char = ")"
              THEN TokenizeFrom(e, i + 1, Append(tokens, Token(char, <<char>>)))
         ELSE IF char = "\"" \/ char = "'"
              THEN LET q == ReadQuoted(e, i + 1, char, <<>>)
                   IN  IF q.i > Len(e)
                       THEN [ok |-> FALSE, tokens |-> <<>>,
                             error |-> Err("Unterminated quoted string", <<>>)]
                       ELSE TokenizeFrom(e, q.i + 1, Append(tokens, Token("STRING", q.value)))
         ELSE IF IsWordChar(char)
              THEN LET w == ReadWord(e, i, <<>>)
                   IN  TokenizeFrom(e, w.i, Append(tokens, WordToken(w.value)))
         ELSE IF char = ":"
              THEN TokenizeFrom(e, i + 1, Append(tokens, Token("COLON", <<":">>)))
         ELSE [ok |-> FALSE, tokens |-> <<>>,
               error |-> Err("Unexpected character: ", <<char>>)]

tokenize(e) == TokenizeFrom(e, 1, <<>>)

\* one turn of the while loop of tokenize, at the k-th character: the index
\* of the character the next turn reads and the tokens then pushed, or the
\* Error thrown and the index at the throw
Turn(k, toks) == [ok |-> TRUE, next |-> k, tokens |-> toks, error |-> NoError]
TurnThrows(k, err) == [ok |-> FALSE, next |-> k, tokens |-> <<>>, error |-> err]

QuotedTurn(e, q, toks) ==
    IF q.i > Len(e) THEN TurnThrows(q.i, Err("Unterminated quoted string", <<>>))
    ELSE Turn(q.i + 1, Append(toks, Token("STRING", q.value)))

WordTurn(w, toks) == Turn(w.i, Append(toks, WordToken(w.value)))

TokenizeTurn(e, k, toks) ==
    IF IsSpace(e[k]) THEN Turn(k + 1, toks)
    ELSE IF e[k] = "(" \/ e[k] = ")" THEN Turn(k + 1, Append(toks, Token(e[k], <<e[k]>>)))
    ELSE IF e[k] = "\"" \/ e[k] = "'" THEN QuotedTurn(e, ReadQuoted(e, k + 1, e[k], <<>>), toks)
    ELSE IF IsWordChar(e[k]) THEN WordTurn(ReadWord(e, k, <<>>), toks)
    ELSE IF e[k] = ":" THEN Turn(k + 1, Append(toks, Token("COLON", <<":">>)))
    ELSE TurnThrows(k, Err("Unexpected character: ", <<e[k]>>))

(***************************************************************************)
(* JavaScript values                                                       *)
(***************************************************************************)
Str(s) == [k |-> "str", s |-> s]
Null == [k |-> "null"]
Undef == [k |-> "undef"]
NaN == [k |-> "nan"]
Infinity(neg) == [k |-> "inf", neg |-> neg]
Arr(a) == [k |-> "arr", a |-> a]

\* a finite number m * 10^x, kept normalised: m = 0 with x = 0, or 10 does not divide m
RECURSIVE Num(_, _)
Num(m, x) ==
    IF m = 0 THEN [k |-> "num", m |-> 0, x |-> 0]
    ELSE IF m % 10 = 0 THEN Num(m \div 10, x + 1)
    ELSE [k |-> "num", m |-> m, x |-> x]

RECURSIVE Pow10(_)
Pow10(n) == IF n <= 0 THEN 1 ELSE 10 * Pow10(n - 1)

DigitValue(c) == IndexIn(Digits, c) - 1

\* the value of a run of decimal digits
RECURSIVE DigitsValue(_)
DigitsValue(ds) ==
    IF ds = <<>> THEN 0
    ELSE 10 * DigitsValue(SubSeq(ds, 1, Len(ds) - 1)) + DigitValue(ds[Len(ds)])

\* the longest run of decimal digits at the head of s
RECURSIVE DigitRun(_)
DigitRun(s) ==
    IF s # <<>> /\ Head(s) \in Range(Digits) THEN <<Head(s)>> \o DigitRun(Tail(s)) ELSE <<>>

Drop(s, n) == SubSeq(s, n + 1, Len(s))

StartsWith(s, p) == Len(s) >= Len(p) /\ SubSeq(s, 1, Len(p)) = p

Neg(s) == s # <<>> /\ Head(s) = "-"
Signed(s) == s # <<>> /\ Head(s) \in {"+", "-"}
Unsigned(s) == IF Signed(s) THEN Tail(s) ELSE s

\* the exponent part at the head of s: its digits (none: no exponent part)
ExpDigits(s) ==
    IF s # <<>> /\ Head(s) \in {"e", "E"} THEN DigitRun(Unsigned(Tail(s))) ELSE <<>>

\* the number of characters the exponent part at the head of s takes
ExpLen(s) ==
    IF ExpDigits(s) = <<>> THEN 0
    ELSE 1 + (IF Signed(Tail(s)) THEN 1 ELSE 0) + Len(ExpDigits(s))

ExpValue(s) ==
    IF s # <<>> /\ Neg(Tail(s)) THEN 0 - DigitsValue(ExpDigits(s))
    ELSE DigitsValue(ExpDigits(s))

\* a decimal literal read so far: sign, integer digits, fraction digits, and
\* the text s3 after them, which may start with an exponent part
ScanExponent(neg, int, frac, s3) ==
    [v |-> Num(IF neg THEN 0 - DigitsValue(int \o frac) ELSE DigitsValue(int \o frac),
               ExpValue(s3) - Len(frac)),
     rest |-> Drop(s3, ExpLen(s3))]

\* s2 is the text after the integer digits: a "." starts a fraction when a
\* digit stands on one side of it
ScanFraction(s0, neg, int, s2) ==
    IF s2 # <<>> /\ Head(s2) = "." /\ (int # <<>> \/ DigitRun(Tail(s2)) # <<>>)
    THEN ScanExponent(neg, int, DigitRun(Tail(s2)), Drop(s2, 1 + Len(DigitRun(Tail(s2)))))
    ELSE IF int = <<>> THEN [v |-> NaN, rest |-> s0]
    ELSE ScanExponent(neg, int, <<>>, s2)

\* the longest prefix of s0 (no leading white space) that is a signed decimal
\* literal (digits, fraction, exponent) or Infinity: its value, NaN when
\* there is none, and the text after it
ScanDecimal(s0) ==
    IF StartsWith(Unsigned(s0), <<"I","n","f","i","n","i","t","y">>)
    THEN [v |-> Infinity(Neg(s0)), rest |-> Drop(Unsigned(s0), 8)]
    ELSE ScanFraction(s0, Neg(s0), DigitRun(Unsigned(s0)),
                      Drop(Unsigned(s0), Len(DigitRun(Unsigned(s0)))))

\* parseFloat of a string
parseFloatStr(str) == ScanDecimal(TrimLeft(str)).v

\* this.propertyAliases
propertyAliases ==
       (<<"t","a","g">> :> <<"t","a","g","s">>)   \* tag: tags
    @@ (<<"c","o","n","t","e","x","t">> :> <<"c","o","n","t","e","x","t","s">>)   \* context: contexts
    @@ (<<"p","r","o","j","e","c","t">> :> <<"p","r","o","j","e","c","t","s">>)   \* project: projects
    @@ (<<"c","r","e","a","t","e","d">> :> <<"f","i","l","e",".","c","t","i","m","e">>)   \* created: file.ctime
    @@ (<<"m","o","d","i","f","i","e","d">> :> <<"f","i","l","e",".","m","t","i","m","e">>)   \* modified: file.mtime
    @@ (<<"c","o","m","p","l","e","t","e","d">> :> <<"c","o","m","p","l","e","t","e","d","D","a","t","e">>)   \* completed: completedDate
    @@ (<<"e","s","t","i","m","a","t","e">> :> <<"t","i","m","e","E","s","t","i","m","a","t","e">>)   \* estimate: timeEstimate

\* this.operatorAliases
operatorAliases ==
       (<<"e","q","u","a","l","s">> :> <<"i","s">>)   \* equals: is
    @@ (<<"n","o","t","-","e","q","u","a","l","s">> :> <<"i","s","-","n","o","t">>)   \* not-equals: is-not
    @@ (<<"b","e","f","o","r","e">> :> <<"i","s","-","b","e","f","o","r","e">>)   \* before: is-before
    @@ (<<"a","f","t","e","r">> :> <<"i","s","-","a","f","t","e","r">>)   \* after: is-after
    @@ (<<"o","n","-","o","r","-","b","e","f","o","r","e">> :> <<"i","s","-","o","n","-","o","r","-","b","e","f","o","r","e">>)   \* on-or-before: is-on-or-before
    @@ (<<"o","n","-","o","r","-","a","f","t","e","r">> :> <<"i","s","-","o","n","-","o","r","-","a","f","t","e","r">>)   \* on-or-after: is-on-or-after
    @@ (<<"g","r","e","a","t","e","r","-","t","h","a","n">> :> <<"i","s","-","g","r","e","a","t","e","r","-","t","h","a","n">>)   \* greater-than: is-greater-than
    @@ (<<"l","e","s","s","-","t","h","a","n">> :> <<"i","s","-","l","e","s","s","-","t","h","a","n">>)   \* less-than: is-less-than
    @@ (<<"e","m","p","t","y">> :> <<"i","s","-","e","m","p","t","y">>)   \* empty: is-empty
    @@ (<<"n","o","t","-","e","m","p","t","y">> :> <<"i","s","-","n","o","t","-","e","m","p","t","y">>)   \* not-empty: is-not-empty
    @@ (<<"c","h","e","c","k","e","d">> :> <<"i","s","-","c","h","e","c","k","e","d">>)   \* checked: is-checked
    @@ (<<"n","o","t","-","c","h","e","c","k","e","d">> :> <<"i","s","-","n","o","t","-","c","h","e","c","k","e","d">>)   \* not-checked: is-not-checked

\* this.validProperties: canonical property name -> value-kind
validProperties ==
       (<<"t","i","t","l","e">> :> "text")   \* title
    @@ (<<"s","t","a","t","u","s">> :> "select")   \* status
    @@ (<<"p","r","i","o","r","i","t","y">> :> "select")   \* priority
    @@ (<<"t","a","g","s">> :> "select")   \* tags
    @@ (<<"c","o","n","t","e","x","t","s">> :> "select")   \* contexts
    @@ (<<"p","r","o","j","e","c","t","s">> :> "select")   \* projects
    @@ (<<"d","u","e">> :> "date")   \* due
    @@ (<<"s","c","h","e","d","u","l","e","d">> :> "date")   \* scheduled
    @@ (<<"c","o","m","p","l","e","t","e","d","D","a","t","e">> :> "date")   \* completedDate
    @@ (<<"f","i","l","e",".","c","t","i","m","e">> :> "date")   \* file.ctime
    @@ (<<"f","i","l","e",".","m","t","i","m","e">> :> "date")   \* file.mtime
    @@ (<<"a","r","c","h","i","v","e","d">> :> "boolean")   \* archived
    @@ (<<"t","i","m","e","E","s","t","i","m","a","t","e">> :> "numeric")   \* timeEstimate
    @@ (<<"r","e","c","u","r","r","e","n","c","e">> :> "special")   \* recurrence
    @@ (<<"s","t","a","t","u","s",".","i","s","C","o","m","p","l","e","t","e","d">> :> "boolean")   \* status.isCompleted

\* this.validOperators
validOperators == <<
    <<"i","s">>,   \* is
    <<"i","s","-","n","o","t">>,   \* is-not
    <<"c","o","n","t","a","i","n","s">>,   \* contains
    <<"d","o","e","s","-","n","o","t","-","c","o","n","t","a","i","n">>,   \* does-not-contain
    <<"i","s","-","b","e","f","o","r","e">>,   \* is-before
    <<"i","s","-","a","f","t","e","r">>,   \* is-after
    <<"i","s","-","o","n","-","o","r","-","b","e","f","o","r","e">>,   \* is-on-or-before
    <<"i","s","-","o","n","-","o","r","-","a","f","t","e","r">>,   \* is-on-or-after
    <<"i","s","-","e","m","p","t","y">>,   \* is-empty
    <<"i","s","-","n","o","t","-","e","m","p","t","y">>,   \* is-not-empty
    <<"i","s","-","c","h","e","c","k","e","d">>,   \* is-checked
    <<"i","s","-","n","o","t","-","c","h","e","c","k","e","d">>,   \* is-not-checked
    <<"i","s","-","g","r","e","a","t","e","r","-","t","h","a","n">>,   \* is-greater-than
    <<"i","s","-","l","e","s","s","-","t","h","a","n">>    \* is-less-than
    >>

(***************************************************************************)
(* createCondition.  operator is Null (inferred form) or the string after  *)
(* the first colon; value is the raw token text; id is the value the call  *)
(* draws for `cond_${Date.now()}_${Math.random()...}`.                     *)
(***************************************************************************)
NoNode == [type |-> "none"]

Condition(id, property, operator, value) ==
    [type |-> "condition", id |-> id, property |-> property,
     operator |-> operator, value |-> value]

\* the property name left as written
ResolvePropertyKept(property) == property

\* this.propertyAliases[property] || property
ResolveProperty(property) ==
    IF property \in DOMAIN propertyAliases THEN propertyAliases[property] ELSE property

\* this.operatorAliases[operator] || operator
ResolveOperator(operator) ==
    IF operator \in DOMAIN operatorAliases THEN operatorAliases[operator] ELSE operator

\* inference that reads the boolean value in any letter case
InferOperatorAnyCase(resolvedProperty, value) ==
    IF validProperties[resolvedProperty] \in {"text"}
       \/ resolvedProperty \in {<<"t","a","g","s">>, <<"c","o","n","t","e","x","t","s">>,
                                 <<"p","r","o","j","e","c","t","s">>}
    THEN <<"c","o","n","t","a","i","n","s">>
    ELSE IF validProperties[resolvedProperty] = "boolean"
    THEN IF toLowerCase(value) = <<"t","r","u","e">>
         THEN <<"i","s","-","c","h","e","c","k","e","d">>
         ELSE <<"i","s","-","n","o","t","-","c","h","e","c","k","e","d">>
    ELSE <<"i","s">>

\* the operator the inferred form gets from the property's value-kind
InferOperator(resolvedProperty, value) ==
    LET propertyType == validProperties[resolvedProperty]
    IN  IF propertyType = "text" THEN <<"c","o","n","t","a","i","n","s">>
        ELSE IF propertyType = "select"
             THEN IF resolvedProperty \in {<<"t","a","g","s">>,
                                           <<"c","o","n","t","e","x","t","s">>,
                                           <<"p","r","o","j","e","c","t","s">>}
                  THEN <<"c","o","n","t","a","i","n","s">>
                  ELSE <<"i","s">>
        ELSE IF propertyType = "date" THEN <<"i","s">>
        ELSE IF propertyType = "boolean"
             THEN IF value = <<"t","r","u","e">>
                  THEN <<"i","s","-","c","h","e","c","k","e","d">>
                  ELSE <<"i","s","-","n","o","t","-","c","h","e","c","k","e","d">>
        ELSE IF propertyType = "numeric" THEN <<"i","s">>
        ELSE <<"i","s">>

Created(node) == [ok |-> TRUE, node |-> node, error |-> NoError]
Rejected(err) == [ok |-> FALSE, node |-> NoNode, error |-> err]

\* !operator: the inferred form (null), or an empty string as the operator
IsInferred(operator) == operator = Null \/ operator = Str(<<>>)

\* the last step without the numeric conversion: the raw text is kept
ConvertValueRaw(propertyType, resolvedProperty, resolvedOperator, value, id) ==
    IF propertyType = "boolean"
    THEN Created(Condition(id, resolvedProperty, resolvedOperator, Null))
    ELSE Created(Condition(id, resolvedProperty, resolvedOperator, value))

\* the last step: convert the value by the property's value-kind and emit
\* the node.  value is the raw text, or Null after the boolean inference
ConvertValue(propertyType, resolvedProperty, resolvedOperator, value, id) ==
    IF propertyType = "numeric" /\ value # Null
    THEN IF parseFloatStr(value.s) = NaN
         THEN Rejected(Err("Invalid numeric value: ", value.s))
         ELSE Created(Condition(id, resolvedProperty, resolvedOperator,
                                parseFloatStr(value.s)))
    ELSE IF propertyType = "boolean"
    THEN Created(Condition(id, resolvedProperty, resolvedOperator, Null))
    ELSE Created(Condition(id, resolvedProperty, resolvedOperator, value))

\* the operator step without the check of the valid set
CheckOperatorUnchecked(resolvedProperty, operator, value, id) ==
    ConvertValue(validProperties[resolvedProperty], resolvedProperty,
                 ResolveOperator(operator), value, id)

\* the operator step: resolve the alias and check the valid set
CheckOperator(resolvedProperty, operator, value, id) ==
    IF ResolveOperator(operator) \notin Range(validOperators)
    THEN Rejected(Err("Unknown operator: ", operator))
    ELSE ConvertValue(validProperties[resolvedProperty], resolvedProperty,
                      ResolveOperator(operator), value, id)

\* the inference step, for a property the schema knows
WithOperator(resolvedProperty, operator, value, id) ==
    IF IsInferred(operator)
    THEN CheckOperator(resolvedProperty, InferOperator(resolvedProperty, value),
                       IF validProperties[resolvedProperty] = "boolean"
                       THEN Null ELSE Str(value), id)
    ELSE CheckOperator(resolvedProperty, operator.s, Str(value), id)

\* the checks with the operator looked at before the property
createConditionOperatorFirst(property, operator, value, id) ==
    IF ~IsInferred(operator) /\ ResolveOperator(operator.s) \notin Range(validOperators)
    THEN Rejected(Err("Unknown operator: ", operator.s))
    ELSE IF ResolveProperty(property) \notin DOMAIN validProperties
    THEN Rejected(Err("Unknown property: ", property))
    ELSE WithOperator(ResolveProperty(property), operator, value, id)

createCondition(property, operator, value, id) ==
    IF ResolveProperty(property) \notin DOMAIN validProperties
    THEN Rejected(Err("Unknown property: ", property))
    ELSE WithOperator(ResolveProperty(property), operator, value, id)

(***************************************************************************)
(* The recursive-descent parser.  The code's token array is consumed by    *)
(* shift(); here every function takes the tokens left and the ids still to *)
(* be drawn and returns them with its node.                                *)
(***************************************************************************)
Returned(node, tokens, ids) ==
    [ok |-> TRUE, node |-> node, tokens |-> tokens, ids |-> ids, error |-> NoError]
Thrown(err) ==
    [ok |-> FALSE, node |-> NoNode, tokens |-> <<>>, ids |-> <<>>, error |-> err]

Group(conjunction, children) ==
    [type |-> "group", conjunction |-> conjunction, children |-> children]

\* the condition createCondition made, with the tokens and ids left after it
Consumed(c, tokens, ids) ==
    IF c.ok THEN Returned(c.node, tokens, ids) ELSE Thrown(c.error)

parseCondition(tokens, ids) ==
    IF Len(tokens) < 3 THEN Thrown(Err("Incomplete condition", <<>>))
    ELSE IF tokens[2].type # "COLON" THEN Thrown(Err("Expected colon after property", <<>>))
    ELSE IF Len(tokens) > 3 /\ tokens[4].type = "COLON"
    THEN IF Len(tokens) > 4
         THEN Consumed(createCondition(tokens[1].value, Str(tokens[3].value),
                                       tokens[5].value, Head(ids)),
                       Drop(tokens, 5), Tail(ids))
         ELSE Thrown(Err("Expected value after operator", <<>>))
    ELSE Consumed(createCondition(tokens[1].value, Null, tokens[3].value, Head(ids)),
                  Drop(tokens, 3), Tail(ids))

RECURSIVE parseOrExpression(_, _)
RECURSIVE parseAndExpression(_, _)
RECURSIVE parsePrimaryExpression(_, _)
RECURSIVE OrLoop(_, _, _)
RECURSIVE AndLoop(_, _, _)

\* the earlier implementation: left = { group, [left, right] } at every AND
AndPushNested(children, right) ==
    IF ~right.ok THEN right
    ELSE IF children = <<>> THEN AndLoop(<<right.node>>, right.tokens, right.ids)
    ELSE AndLoop(<<Group("and", <<children[1], right.node>>)>>, right.tokens, right.ids)

\* children.push(right) and the next turn of the loop; a throw leaves the loop
OrPush(children, right) ==
    IF right.ok THEN OrLoop(Append(children, right.node), right.tokens, right.ids)
    ELSE right

\* the while loop of parseOrExpression with the children collected so far
OrLoop(children, tokens, ids) ==
    IF tokens # <<>> /\ tokens[1].type = "LOGICAL" /\ tokens[1].value = <<"o","r">>
    THEN OrPush(children, parseAndExpression(Tail(tokens), ids))
    ELSE IF Len(children) = 1 THEN Returned(children[1], tokens, ids)
    ELSE Returned(Group("or", children), tokens, ids)

parseOrExpression(tokens, ids) == OrPush(<<>>, parseAndExpression(tokens, ids))

\* a parenthesized and-Group spliced into the enclosing and-Group
AndPushSpliced(children, right) ==
    IF ~right.ok THEN right
    ELSE IF right.node.type = "group" /\ right.node.conjunction = "and"
    THEN AndLoop(children \o right.node.children, right.tokens, right.ids)
    ELSE AndLoop(Append(children, right.node), right.tokens, right.ids)

AndPush(children, right) ==
    IF right.ok THEN AndLoop(Append(children, right.node), right.tokens, right.ids)
    ELSE right

\* the while loop of parseAndExpression with the children collected so far
AndLoop(children, tokens, ids) ==
    IF tokens # <<>> /\ tokens[1].type = "LOGICAL" /\ tokens[1].value = <<"a","n","d">>
    THEN AndPush(children, parsePrimaryExpression(Tail(tokens), ids))
    ELSE IF Len(children) = 1 THEN Returned(children[1], tokens, ids)
    ELSE Returned(Group("and", children), tokens, ids)

parseAndExpression(tokens, ids) == AndPush(<<>>, parsePrimaryExpression(tokens, ids))

\* a Group made for every pair of parentheses
CloseParenGrouped(expr) ==
    IF ~expr.ok THEN expr
    ELSE IF expr.tokens = <<>> \/ expr.tokens[1].type # ")"
    THEN Thrown(Err("Missing closing parenthesis", <<>>))
    ELSE Returned(Group("and", <<expr.node>>), Tail(expr.tokens), expr.ids)

\* after the expression inside parentheses: require and consume the ")"
CloseParen(expr) ==
    IF ~expr.ok THEN expr
    ELSE IF expr.tokens = <<>> \/ expr.tokens[1].type # ")"
    THEN Thrown(Err("Missing closing parenthesis", <<>>))
    ELSE Returned(expr.node, Tail(expr.tokens), expr.ids)

parsePrimaryExpression(tokens, ids) ==
    IF tokens = <<>> THEN Thrown(Err("Unexpected end of expression", <<>>))
    ELSE IF tokens[1].type = "(" THEN CloseParen(parseOrExpression(Tail(tokens), ids))
    ELSE IF tokens[1].type = "IDENTIFIER" THEN parseCondition(tokens, ids)
    ELSE Thrown(Err("Unexpected token: ", tokens[1].value))

parseExpression(tokens, ids) == parseOrExpression(tokens, ids)

\* the root always wrapped around the top-level node
AstAlwaysWrapped(ast, rootId) ==
    [type |-> "group", id |-> rootId, conjunction |-> "and", children |-> <<ast>>]

\* rootId is the value drawn for `root_${Date.now()}`
astToFilterQuery(ast, rootId) ==
    IF ast.type = "condition"
    THEN [type |-> "group", id |-> rootId, conjunction |-> "and", children |-> <<ast>>]
    ELSE IF ast.type = "group"
    THEN [type |-> "group", id |-> rootId, conjunction |-> ast.conjunction,
          children |-> ast.children]
    ELSE [type |-> "group", id |-> rootId, conjunction |-> "and", children |-> <<>>]

NoQuery == [type |-> "none"]

ParseFailed(err) ==
    [ok |-> FALSE, query |-> NoQuery, error |-> [err EXCEPT !.wrapped = TRUE]]

\* the end of the try block: the tree of the ast, or the wrapped error
ParseDone(ast, rootId) ==
    IF ~ast.ok THEN ParseFailed(ast.error)
    ELSE [ok |-> TRUE, query |-> astToFilterQuery(ast.node, rootId), error |-> NoError]

\* the try block, from the outcome of tokenize
ParseTokens(t, ids, rootId) ==
    IF ~t.ok THEN ParseFailed(t.error)
    ELSE ParseDone(parseExpression(t.tokens, ids), rootId)

\* parse: what it returns (query) or throws (error)
parse(expr, ids, rootId) ==
    IF expr = <<>> \/ trim(expr) = <<>>
    THEN [ok |-> FALSE, query |-> NoQuery,
          error |-> Err("Filter expression cannot be empty", <<>>)]
    ELSE ParseTokens(tokenize(expr), ids, rootId)

(***************************************************************************)
(* The evaluator (lib/api.js).  A task is a function from property names   *)
(* to values; a property outside its domain reads as undefined.            *)
(* An evaluation ends "true" or "false" (the truthiness of what the code   *)
(* returns, which is all that some/every/filter read) or "throw" (a        *)
(* TypeError leaves the call).                                             *)
(***************************************************************************)
\* the characters of the model in UTF-16 code order
CodeOrder ==
    <<"\t", "\n", " ", "!", "\"", "'", "(", ")", "+", ",", "-", ".">>
    \o Digits \o <<":", "=", "@">> \o Upper \o <<"\\", "_">> \o Lower

CharCode(c) == IndexIn(CodeOrder, c)

\* a < b on strings: by code units, a proper prefix first
RECURSIVE StrLess(_, _)
StrLess(a, b) ==
    IF b = <<>> THEN FALSE
    ELSE IF a = <<>> THEN TRUE
    ELSE IF Head(a) = Head(b) THEN StrLess(Tail(a), Tail(b))
    ELSE CharCode(Head(a)) < CharCode(Head(b))

\* String.prototype.includes
includes(s, sub) ==
    \E i \in 0..(Len(s) - Len(sub)) : SubSeq(s, i + 1, i + Len(sub)) = sub

\* Array.prototype.join(",")
RECURSIVE Join(_)
Join(a) ==
    IF a = <<>> THEN <<>>
    ELSE IF Len(a) = 1 THEN a[1]
    ELSE a[1] \o <<",">> \o Join(Tail(a))

\* the digits of a 0x / 0o / 0b literal
RadixDigits == Digits \o <<"a","b","c","d","e","f">>

RECURSIVE RadixValue(_, _)
RadixValue(ds, radix) ==
    IF ds = <<>> THEN 0
    ELSE radix * RadixValue(SubSeq(ds, 1, Len(ds) - 1), radix)
         + (IndexIn(RadixDigits, LowerChar(ds[Len(ds)])) - 1)

IsRadixRun(ds, radix) ==
    /\ ds # <<>>
    /\ \A i \in DOMAIN ds :
         /\ LowerChar(ds[i]) \in Range(RadixDigits)
         /\ IndexIn(RadixDigits, LowerChar(ds[i])) <= radix

RadixOf(c) == IF c = "x" THEN 16 ELSE IF c = "o" THEN 8 ELSE IF c = "b" THEN 2 ELSE 0

\* ToNumber of a string: the whole trimmed text must be a numeric literal
StringToNumber(str) ==
    LET t == trim(str)
        d == ScanDecimal(t)
    IN  IF t = <<>> THEN Num(0, 0)
        ELSE IF Len(t) >= 2 /\ t[1] = "0" /\ RadixOf(LowerChar(t[2])) # 0
        THEN IF IsRadixRun(Drop(t, 2), RadixOf(LowerChar(t[2])))
             THEN Num(RadixValue(Drop(t, 2), RadixOf(LowerChar(t[2]))), 0)
             ELSE NaN
        ELSE IF d.rest = <<>> THEN d.v ELSE NaN

\* ToPrimitive: an array becomes its join
ToPrimitive(v) == IF v.k = "arr" THEN Str(Join(v.a)) ELSE v

ToNumber(v) ==
    IF v.k = "str" THEN StringToNumber(v.s)
    ELSE IF v.k = "null" THEN Num(0, 0)
    ELSE IF v.k = "undef" THEN NaN
    ELSE v

\* a < b on numbers (NaN compares false with everything)
NumLess(a, b) ==
    IF a.k = "nan" \/ b.k = "nan" THEN FALSE
    ELSE IF a.k = "inf" THEN a.neg /\ ~(b.k = "inf" /\ b.neg)
    ELSE IF b.k = "inf" THEN ~b.neg
    ELSE LET lo == IF a.x < b.x THEN a.x ELSE b.x
         IN  a.m * Pow10(a.x - lo) < b.m * Pow10(b.x - lo)

NumEq(a, b) == a.k \in {"num", "inf"} /\ a = b

\* the relational operators  a < b,  a > b,  a <= b,  a >= b
JsLess(a, b) ==
    LET pa == ToPrimitive(a)
        pb == ToPrimitive(b)
    IN  IF pa.k = "str" /\ pb.k = "str" THEN StrLess(pa.s, pb.s)
        ELSE NumLess(ToNumber(pa), ToNumber(pb))

JsLessEq(a, b) ==
    LET pa == ToPrimitive(a)
        pb == ToPrimitive(b)
    IN  IF pa.k = "str" /\ pb.k = "str" THEN ~StrLess(pb.s, pa.s)
        ELSE NumLess(ToNumber(pa), ToNumber(pb)) \/ NumEq(ToNumber(pa), ToNumber(pb))

JsGreater(a, b) == JsLess(b, a)
JsGreaterEq(a, b) == JsLessEq(b, a)

\* parseFloat of any value: of its ToString
parseFloat(v) ==
    IF v.k = "str" THEN parseFloatStr(v.s)
    ELSE IF v.k = "arr" THEN parseFloatStr(Join(v.a))
    ELSE IF v.k \in {"num", "inf"} THEN v
    ELSE NaN

\* the truthiness of a value
Truthy(v) ==
    IF v.k = "str" THEN v.s # <<>>
    ELSE IF v.k = "num" THEN v.m # 0
    ELSE v.k \in {"arr", "inf"}

\* task[property]
Get(task, property) == IF property \in DOMAIN task THEN task[property] ELSE Undef

Bool(b) == IF b THEN "true" ELSE "false"

\* x.toLowerCase() is a call only a string has
HasToLowerCase(v) == v.k = "str"

\* taskValue.some(v => v.toLowerCase() <rel> value.toLowerCase()), and the
\* scalar form taskValue.toLowerCase() <rel> value.toLowerCase(), for
\* <rel> equality (exact) or includes: "throw" when a toLowerCase call fails
MatchArray(a, value, exact) ==
    IF a = <<>> THEN "false"
    ELSE IF ~HasToLowerCase(value) THEN "throw"
    ELSE Bool(\E i \in DOMAIN a :
                 IF exact THEN toLowerCase(a[i]) = toLowerCase(value.s)
                 ELSE includes(toLowerCase(a[i]), toLowerCase(value.s)))

MatchScalar(taskValue, value, exact) ==
    IF ~HasToLowerCase(taskValue) \/ ~HasToLowerCase(value) THEN "throw"
    ELSE Bool(IF exact THEN toLowerCase(taskValue.s) = toLowerCase(value.s)
              ELSE includes(toLowerCase(taskValue.s), toLowerCase(value.s)))

Negate(r) == IF r = "throw" THEN "throw" ELSE Bool(r = "false")

\* the case labels of the switch of evaluateCondition: an operator outside
\* them is decided by `default: return true`
CaseLabels ==
    {<<"i","s">>, <<"i","s","-","n","o","t">>, <<"c","o","n","t","a","i","n","s">>,
     <<"d","o","e","s","-","n","o","t","-","c","o","n","t","a","i","n">>,
     <<"i","s","-","b","e","f","o","r","e">>, <<"b","e","f","o","r","e">>,
     <<"i","s","-","a","f","t","e","r">>, <<"a","f","t","e","r">>,
     <<"i","s","-","o","n","-","o","r","-","b","e","f","o","r","e">>,
     <<"o","n","-","o","r","-","b","e","f","o","r","e">>,
     <<"i","s","-","o","n","-","o","r","-","a","f","t","e","r">>,
     <<"o","n","-","o","r","-","a","f","t","e","r">>,
     <<"i","s","-","e","m","p","t","y">>, <<"e","m","p","t","y">>,
     <<"i","s","-","n","o","t","-","e","m","p","t","y">>, <<"n","o","t","-","e","m","p","t","y">>,
     <<"i","s","-","g","r","e","a","t","e","r","-","t","h","a","n">>,
     <<"g","r","e","a","t","e","r","-","t","h","a","n">>,
     <<"i","s","-","l","e","s","s","-","t","h","a","n">>, <<"l","e","s","s","-","t","h","a","n">>}

evaluateCondition(task, condition) ==
    LET property == condition.property
        operator == condition.operator
        value == condition.value
        taskValue == Get(task, property)
    IN  IF operator = <<"i","s">>
        THEN IF taskValue.k = "arr" THEN MatchArray(taskValue.a, value, TRUE)
             ELSE IF ~Truthy(taskValue) THEN "false"
             ELSE MatchScalar(taskValue, value, TRUE)
        ELSE IF operator = <<"i","s","-","n","o","t">>
        THEN IF taskValue.k = "arr" THEN Negate(MatchArray(taskValue.a, value, TRUE))
             ELSE IF ~Truthy(taskValue) THEN "true"
             ELSE Negate(MatchScalar(taskValue, value, TRUE))
        ELSE IF operator = <<"c","o","n","t","a","i","n","s">>
        THEN IF taskValue.k = "arr" THEN MatchArray(taskValue.a, value, FALSE)
             ELSE IF ~Truthy(taskValue) THEN "false"
             ELSE MatchScalar(taskValue, value, FALSE)
        ELSE IF operator = <<"d","o","e","s","-","n","o","t","-","c","o","n","t","a","i","n">>
        THEN IF taskValue.k = "arr" THEN Negate(MatchArray(taskValue.a, value, FALSE))
             ELSE IF ~Truthy(taskValue) THEN "true"
             ELSE Negate(MatchScalar(taskValue, value, FALSE))
        ELSE IF operator \in {<<"i","s","-","b","e","f","o","r","e">>,
                              <<"b","e","f","o","r","e">>}
        THEN Bool(Truthy(taskValue) /\ JsLess(taskValue, value))
        ELSE IF operator \in {<<"i","s","-","a","f","t","e","r">>, <<"a","f","t","e","r">>}
        THEN Bool(Truthy(taskValue) /\ JsGreater(taskValue, value))
        ELSE IF operator \in {<<"i","s","-","o","n","-","o","r","-","b","e","f","o","r","e">>,
                              <<"o","n","-","o","r","-","b","e","f","o","r","e">>}
        THEN Bool(Truthy(taskValue) /\ JsLessEq(taskValue, value))
        ELSE IF operator \in {<<"i","s","-","o","n","-","o","r","-","a","f","t","e","r">>,
                              <<"o","n","-","o","r","-","a","f","t","e","r">>}
        THEN Bool(Truthy(taskValue) /\ JsGreaterEq(taskValue, value))
        ELSE IF operator \in {<<"i","s","-","e","m","p","t","y">>, <<"e","m","p","t","y">>}
        THEN Bool(~Truthy(taskValue) \/ (taskValue.k = "arr" /\ Len(taskValue.a) = 0))
        ELSE IF operator \in {<<"i","s","-","n","o","t","-","e","m","p","t","y">>,
                              <<"n","o","t","-","e","m","p","t","y">>}
        THEN Bool(Truthy(taskValue) /\ (taskValue.k # "arr" \/ Len(taskValue.a) > 0))
        ELSE IF operator \in {<<"i","s","-","g","r","e","a","t","e","r","-","t","h","a","n">>,
                              <<"g","r","e","a","t","e","r","-","t","h","a","n">>}
        THEN Bool(Truthy(taskValue) /\ NumLess(parseFloat(value), parseFloat(taskValue)))
        ELSE IF operator \in {<<"i","s","-","l","e","s","s","-","t","h","a","n">>,
                              <<"l","e","s","s","-","t","h","a","n">>}
        THEN Bool(Truthy(taskValue) /\ NumLess(parseFloat(taskValue), parseFloat(value)))
        ELSE "true"

RECURSIVE evaluateGroup(_, _)
RECURSIVE evaluateNode(_, _)
RECURSIVE Some(_, _, _)
RECURSIVE Every(_, _, _)

\* some: a truthy result (or a throw) of child i ends the scan
SomeStep(task, children, i, r) ==
    IF r = "false" THEN Some(task, children, i + 1) ELSE r

\* children.some(child => this.evaluateNode(task, child)), from child i on
Some(task, children, i) ==
    IF i > Len(children) THEN "false"
    ELSE SomeStep(task, children, i, evaluateNode(task, children[i]))

\* every: a falsy result (or a throw) of child i ends the scan
EveryStep(task, children, i, r) ==
    IF r = "true" THEN Every(task, children, i + 1) ELSE r

\* the evaluation of a Group as a pair: the children after the second unread
EveryOfTwo(task, children, i) ==
    IF i > Len(children) \/ i > 2 THEN "true"
    ELSE EveryStep(task, children, i, evaluateNode(task, children[i]))

\* children.every(child => this.evaluateNode(task, child)), from child i on
Every(task, children, i) ==
    IF i > Len(children) THEN "true"
    ELSE EveryStep(task, children, i, evaluateNode(task, children[i]))

evaluateGroup(task, group) ==
    IF Len(group.children) = 0 THEN "true"
    ELSE IF group.conjunction = "or" THEN Some(task, group.children, 1)
    ELSE Every(task, group.children, 1)

\* an evaluation that reads the id of a Condition
evaluateNodeById(task, node) ==
    IF node.type = "group" THEN evaluateGroup(task, node)
    ELSE IF node.type = "condition"
    THEN IF node.id = [now |-> 0, rnd |-> 1] THEN "true" ELSE evaluateCondition(task, node)
    ELSE "true"

evaluateNode(task, node) ==
    IF node.type = "group" THEN evaluateGroup(task, node)
    ELSE IF node.type = "condition" THEN evaluateCondition(task, node)
    ELSE "true"

(***************************************************************************)
(* queryTasks: fetch every task, keep those the root group accepts, cut    *)
(* to the limit.  A TypeError in an evaluation rejects the whole call.     *)
(***************************************************************************)
DefaultLimit == 200

\* the callback of the filter: whether the root group is true of the task
Keeps(query, task) == evaluateGroup(task, query) = "true"

\* tasks.filter(task => this.evaluateGroup(task, filterQuery)): the tasks the
\* callback keeps, in order; no result when a call of the callback throws
FilterBy(ts, query) ==
    IF \E i \in DOMAIN ts : evaluateGroup(ts[i], query) = "throw"
    THEN [ok |-> FALSE, tasks |-> <<>>]
    ELSE [ok |-> TRUE, tasks |-> SelectSeq(ts, LAMBDA task : Keeps(query, task))]

NoListing == [ok |-> FALSE, tasks |-> <<>>, total |-> 0, filtered |-> 0]

NoOutput == [tasks |-> <<>>, total |-> 0, filtered |-> 0, count |-> 0]

\* ts.slice(0, n): a negative n counts from the end
SliceTo(ts, n) ==
    IF n >= Len(ts) THEN ts
    ELSE IF n >= 0 THEN SubSeq(ts, 1, n)
    ELSE IF Len(ts) + n > 0 THEN SubSeq(ts, 1, Len(ts) + n)
    ELSE <<>>

\* tasks.slice(0, limit) when tasks.length > limit
Cut(ts, limit) == IF Len(ts) > limit THEN SliceTo(ts, limit) ELSE ts

\* filterQuery.limit || 200: the limit is a number, or the tree has none
LimitOf(query) ==
    IF "limit" \in DOMAIN query /\ query.limit # 0 THEN query.limit ELSE DefaultLimit

\* the result object, from the outcome of the filter
Listing(f, total, limit) ==
    IF ~f.ok THEN NoListing
    ELSE [ok |-> TRUE, tasks |-> Cut(f.tasks, limit), total |-> total,
          filtered |-> Len(Cut(f.tasks, limit))]

queryTasks(query, fetched) ==
    Listing(FilterBy(fetched, query), Len(fetched), LimitOf(query))

(***************************************************************************)
(* The run of `tn list --filter <expression>` (commands/list.js):          *)
(* parse the expression, then query the tasks with the tree.               *)
(***************************************************************************)
\* the id `cond_${Date.now()}_${Math.random()...}` of the i-th draw
CondId(now, rnd) == [now |-> now, rnd |-> rnd]
RootId(now) == [now |-> now]

CondIds == [i \in DOMAIN random |-> CondId(clock, random[i])]

\* what the run keeps of parse's outcome r
Parsed(r) ==
    /\ pc' = IF r.ok THEN "parsed" ELSE "failed"
    /\ filterQuery' = r.query
    /\ error' = r.error

\* parser.parse(options.filter)
Parse ==
    /\ pc = "start"
    /\ Parsed(parse(expression, CondIds, RootId(clock)))
    /\ UNCHANGED <<expression, pos, lexed, opener, buffer, clock, random, tasks, listing, jsonOutput>>

\* api.queryTasks(filterQuery): the fetch answers with one of `answers`
QueryTasks(answers) ==
    /\ pc = "parsed"
    /\ \E fetched \in answers :
         /\ tasks' = fetched
         /\ listing' = queryTasks(filterQuery, fetched)
         /\ pc' = IF listing'.ok THEN "listed" ELSE "crashed"
    /\ UNCHANGED <<expression, pos, lexed, opener, buffer, filterQuery, error, clock, random,
                   jsonOutput>>

(***************************************************************************)
(* `tn list --filter <expression> --limit <n> --json`: the cut list.js      *)
(* makes on the result of queryTasks, and the data object it prints.       *)
(***************************************************************************)
\* parseInt of a text reads an integer: after white space and a sign, a run
\* of hexadecimal digits after 0x or 0X, or a run of decimal digits
HexRun(s) == IF Len(s) >= 2 /\ s[1] = "0" /\ s[2] \in {"x", "X"} THEN Drop(s, 2) ELSE <<>>

RECURSIVE HexDigitRun(_)
HexDigitRun(s) ==
    IF s # <<>> /\ LowerChar(Head(s)) \in Range(RadixDigits)
    THEN <<Head(s)>> \o HexDigitRun(Tail(s)) ELSE <<>>

IsHex(s) == HexDigitRun(HexRun(s)) # <<>>

ReadsInt(str) ==
    IsHex(Unsigned(TrimLeft(str))) \/ DigitRun(Unsigned(TrimLeft(str))) # <<>>

Magnitude(s) ==
    IF IsHex(s) THEN RadixValue(HexDigitRun(HexRun(s)), 16) ELSE DigitsValue(DigitRun(s))

\* parseInt(str), for a text it reads an integer from (NaN otherwise)
parseInt(str) ==
    IF Neg(TrimLeft(str)) THEN 0 - Magnitude(Unsigned(TrimLeft(str)))
    ELSE Magnitude(Unsigned(TrimLeft(str)))

\* if (options.limit) { ... if (tasks.length > limit) ... }: whether the cut is made
CutsAt(result, option) ==
    /\ option # Undef
    /\ option.s # <<>>
    /\ ReadsInt(option.s)
    /\ Len(result.tasks) > parseInt(option.s)

\* result after the handler's cut: filtered is set to the count before it
Limited(result, option) ==
    IF CutsAt(result, option)
    THEN [result EXCEPT !.filtered = Len(result.tasks),
                        !.tasks = SliceTo(result.tasks, parseInt(option.s))]
    ELSE result

\* data of the JSON output: result.total || 0, result.filtered || tasks.length
JsonData(result) ==
    [tasks |-> result.tasks,
     total |-> result.total,
     filtered |-> IF result.filtered # 0 THEN result.filtered ELSE Len(result.tasks),
     count |-> Len(result.tasks)]

\* the handler after queryTasks returned: the cut and the JSON output
ListJson(options) ==
    /\ pc = "listed"
    /\ \E option \in options :
         /\ listing' = Limited(listing, option)
         /\ jsonOutput' = JsonData(Limited(listing, option))
    /\ pc' = "printed"
    /\ UNCHANGED <<expression, pos, lexed, opener, buffer, filterQuery, error, clock, random,
                   tasks>>

(***************************************************************************)
(* The same call of parse taken one step at a time: the check for an empty *)
(* expression, each turn of the tokenizer's loop, the return of tokenize,  *)
(* and the parse of the tokens.                                            *)
(***************************************************************************)
\* parse, to the call of tokenize: `let i = 0`, `const tokens = []`
ParseEnter ==
    /\ pc = "start"
    /\ IF expression = <<>> \/ trim(expression) = <<>>
       THEN /\ pc' = "failed"
            /\ error' = Err("Filter expression cannot be empty", <<>>)
       ELSE /\ pc' = "tokenizing"
            /\ error' = error
    /\ pos' = 0
    /\ lexed' = <<>>
    /\ UNCHANGED <<expression, opener, buffer, filterQuery, clock, random, tasks, listing, jsonOutput>>

\* what a turn t of the loop leaves: the loop goes on, or the Error reaches
\* parse's catch
Turned(t) ==
    /\ pos' = t.next - 1
    /\ lexed' = t.tokens
    /\ pc' = IF t.ok THEN "tokenizing" ELSE "failed"
    /\ error' = IF t.ok THEN error ELSE [t.error EXCEPT !.wrapped = TRUE]

\* one turn of `while (i < expression.length)`
TokenizeStep ==
    /\ pc = "tokenizing"
    /\ pos < Len(expression)
    /\ Turned(TokenizeTurn(expression, pos + 1, lexed))
    /\ UNCHANGED <<expression, opener, buffer, filterQuery, clock, random, tasks, listing, jsonOutput>>

\* the loop ends: `return tokens`
TokenizeReturn ==
    /\ pc = "tokenizing"
    /\ pos >= Len(expression)
    /\ pc' = "tokenized"
    /\ UNCHANGED <<expression, pos, lexed, opener, buffer, filterQuery, error, clock, random, tasks, listing, jsonOutput>>

\* parseExpression(tokens) and astToFilterQuery(ast)
ParseTokenized ==
    /\ pc = "tokenized"
    /\ Parsed(ParseDone(parseExpression(lexed, CondIds), RootId(clock)))
    /\ UNCHANGED <<expression, pos, lexed, opener, buffer, clock, random, tasks, listing, jsonOutput>>

(***************************************************************************)
(* The tokenizer taken one loop iteration at a time: the outer loop up to  *)
(* its inner loop, each iteration of the quoted-string loop and of the     *)
(* word loop, and what follows each inner loop.                            *)
(***************************************************************************)
\* the Error reaches parse's catch: the tokens are lost
Throws(err) ==
    /\ pc' = "failed"
    /\ lexed' = <<>>
    /\ error' = [err EXCEPT !.wrapped = TRUE]

\* tokens.push(token); i += n; continue
Pushes(token, n) ==
    /\ lexed' = Append(lexed, token)
    /\ pos' = pos + n
    /\ UNCHANGED <<pc, opener, buffer, error>>

\* an iteration of the outer loop, up to its `continue` or its inner loop
LoopTurn ==
    /\ pc = "tokenizing"
    /\ pos < Len(expression)
    /\ LET char == expression[pos + 1] IN
         IF IsSpace(char)
         THEN pos' = pos + 1 /\ UNCHANGED <<pc, lexed, opener, buffer, error>>
         ELSE IF char = "(" \/ char = ")" THEN Pushes(Token(char, <<char>>), 1)
         ELSE IF char = "\"" \/ char = "'"
         THEN /\ opener' = char
              /\ buffer' = <<>>
              /\ pos' = pos + 1
              /\ pc' = "string"
              /\ UNCHANGED <<lexed, error>>
         ELSE IF IsWordChar(char)
         THEN /\ buffer' = <<>>
              /\ pc' = "word"
              /\ UNCHANGED <<pos, lexed, opener, error>>
         ELSE IF char = ":" THEN Pushes(Token("COLON", <<":">>), 1)
         ELSE Throws(Err("Unexpected character: ", <<char>>)) /\ UNCHANGED <<pos, opener, buffer>>
    /\ UNCHANGED <<expression, filterQuery, clock, random, tasks, listing, jsonOutput>>

\* an iteration that steps back over the character before a backslash
StringAdvanceBack(e, p) == IF e[p + 1] = "\\" /\ p > 1 THEN 0 - 1 ELSE 1

\* the characters an iteration of the quoted-string loop takes: two when the
\* one at p is a backslash with a character after it
StringAdvance(e, p) == IF e[p + 1] = "\\" /\ p + 1 < Len(e) THEN 2 ELSE 1

\* while (i < expression.length && expression[i] !== quote): one iteration
StringIter ==
    /\ pc = "string"
    /\ pos < Len(expression) /\ expression[pos + 1] # opener
    /\ buffer' = Append(buffer, expression[pos + StringAdvance(expression, pos)])
    /\ pos' = pos + StringAdvance(expression, pos)
    /\ UNCHANGED <<expression, pc, lexed, opener, filterQuery, error, clock, random, tasks,
                   listing, jsonOutput>>

\* after the quoted-string loop: the throw, or the closing quote and the push
StringEnd ==
    /\ pc = "string"
    /\ ~(pos < Len(expression) /\ expression[pos + 1] # opener)
    /\ IF pos >= Len(expression)
       THEN Throws(Err("Unterminated quoted string", <<>>)) /\ UNCHANGED pos
       ELSE /\ lexed' = Append(lexed, Token("STRING", buffer))
            /\ pos' = pos + 1
            /\ pc' = "tokenizing"
            /\ UNCHANGED error
    /\ UNCHANGED <<expression, opener, buffer, filterQuery, clock, random, tasks, listing, jsonOutput>>

\* while (i < expression.length && /[a-zA-Z0-9_.-]/.test(expression[i])): one iteration
WordIter ==
    /\ pc = "word"
    /\ pos < Len(expression) /\ IsWordChar(expression[pos + 1])
    /\ buffer' = Append(buffer, expression[pos + 1])
    /\ pos' = pos + 1
    /\ UNCHANGED <<expression, pc, lexed, opener, filterQuery, error, clock, random, tasks,
                   listing, jsonOutput>>

\* after the word loop: the push of the LOGICAL or IDENTIFIER token
WordEnd ==
    /\ pc = "word"
    /\ ~(pos < Len(expression) /\ IsWordChar(expression[pos + 1]))
    /\ lexed' = Append(lexed, WordToken(buffer))
    /\ pc' = "tokenizing"
    /\ UNCHANGED <<expression, pos, opener, buffer, filterQuery, error, clock, random, tasks,
                   listing, jsonOutput>>

(***************************************************************************)
(* Inputs.  An expression is written as pieces (a condition, a connective, *)
(* a parenthesis) separated by single spaces.                              *)
(***************************************************************************)
MaxPieces == 7      \* pieces of a well-formed expression
MaxJunk == 4        \* pieces of an arbitrary sequence of pieces
ClockStart == 0     \* the reading of Date.now()

CondStatus == <<"s","t","a","t","u","s",":","d","o","n","e">>                     \* status:done
CondTags == <<"t","a","g","s",":","a">>                                           \* tags:a
CondEstimate == <<"t","i","m","e","E","s","t","i","m","a","t","e",":","3","0">>   \* timeEstimate:30
AND == <<"A","N","D">>
OR == <<"O","R">>
LP == <<"(">>
RP == <<")">>

Conds == {CondStatus, CondTags, CondEstimate}
Connectives == {AND, OR}
Pieces == Conds \cup Connectives \cup {LP, RP}

\* the text of a sequence of pieces
RECURSIVE Render(_)
Render(ps) ==
    IF ps = <<>> THEN <<>>
    ELSE IF Len(ps) = 1 THEN ps[1]
    ELSE ps[1] \o <<" ">> \o Render(Tail(ps))

\* the well-formed expressions of exactly n pieces: orExpr of the grammar,
\* written without telling the two connectives apart
RECURSIVE AtomsOf(_)
RECURSIVE ChainsOf(_)
AtomsOf(n) ==
    (IF n = 1 THEN {<<c>> : c \in Conds} ELSE {})
    \cup (IF n >= 3 THEN {<<LP>> \o e \o <<RP>> : e \in ChainsOf(n - 2)} ELSE {})

ChainsOf(n) ==
    AtomsOf(n)
    \cup UNION {{at \o <<op>> \o r : at \in AtomsOf(j), op \in Connectives,
                                     r \in ChainsOf(n - 1 - j)} : j \in 1..(n - 2)}

WellFormed == UNION {ChainsOf(n) : n \in 1..MaxPieces}

\* every sequence of at most MaxJunk pieces
Junk == UNION {[1..n -> Pieces] : n \in 0..MaxJunk}

GrammarInputs == {Render(ps) : ps \in WellFormed \cup Junk}

\* texts over a few characters: whitespace, quotes, the escape character, a
\* word character, a colon, a parenthesis and an unsupported character
MaxLex == 3         \* characters of a lexical input
LexChars == {"a", " ", "\t", "\"", "'", "\\", "=", ":", "("}
LexInputs == UNION {[1..n -> LexChars] : n \in 0..MaxLex}

\* one malformed input for each error the parser functions throw
IncompleteInput == <<"p","r","i","o","r","i","t","y",":">>                \* priority:
UnknownPropertyInput == <<"f","a","k","e","p","r","o","p",":","x">>           \* fakeprop:x
UnknownOperatorInput == <<"t","a","g","s",":","f","r","o","b","n","i","c","a","t","e",":","x">>           \* tags:frobnicate:x
UnclosedInput == <<"(","s","t","a","t","u","s",":","d","o","n","e">>                  \* (status:done
ExampleInputs == {IncompleteInput, UnknownPropertyInput, UnknownOperatorInput, UnclosedInput}

\* the number of colons of a text: no parse draws more condition ids
RECURSIVE NumColons(_)
NumColons(s) ==
    IF s = <<>> THEN 0 ELSE (IF Head(s) = ":" THEN 1 ELSE 0) + NumColons(Tail(s))

\* draws of Math.random() that all differ
DistinctDraws(n) == [i \in 1..n |-> i]

\* task records: status a string, tags an array, timeEstimate a number or absent
TaskOf(st, tg, est) ==
    LET base == (<<"s","t","a","t","u","s">> :> st) @@ (<<"t","a","g","s">> :> tg)
    IN  IF est = Undef THEN base
        ELSE base @@ (<<"t","i","m","e","E","s","t","i","m","a","t","e">> :> est)

TaskSet ==
    {TaskOf(st, tg, est) :
        st \in {Str(<<"d","o","n","e">>), Str(<<"t","o","d","o">>)},
        tg \in {Arr(<<<<"a">>>>), Arr(<<>>)},
        est \in {Undef, Num(30, 0)}}

SingleTasks == {<<t>> : t \in TaskSet}

InitRun(inputs) ==
    /\ expression \in inputs
    /\ pc = "start"
    /\ filterQuery = NoQuery
    /\ error = NoError
    /\ clock = ClockStart
    /\ random = DistinctDraws(NumColons(expression))
    /\ tasks = <<>>
    /\ listing = NoListing
    /\ pos = 0
    /\ lexed = <<>>
    /\ opener = ""
    /\ buffer = <<>>
    /\ jsonOutput = NoOutput

Init == InitRun(GrammarInputs \cup LexInputs \cup ExampleInputs)

Next ==
    \/ Parse
    \/ QueryTasks(SingleTasks)

Spec == Init /\ [][Next]_vars

(***************************************************************************)
(* Runs on one condition: every property name, schema key or alias or      *)
(* neither, with every operator spelling or none, and a few values; and    *)
(* the expressions of the parser's tests and of the README.                *)
(***************************************************************************)
UnknownNames == {<<"f","a","k","e","p","r","o","p">>, <<"T","a","g","s">>, <<"c","o","n","s","t","r","u","c","t","o","r">>}      \* fakeprop, Tags, constructor
UnknownOperators == {<<"f","r","o","b","n","i","c","a","t","e">>, <<"I","S">>, <<"n","o","t">>}  \* frobnicate, IS, not
CondProperties == DOMAIN validProperties \cup DOMAIN propertyAliases \cup UnknownNames
CondOperators == Range(validOperators) \cup DOMAIN operatorAliases \cup UnknownOperators
\* true, false, TRUE, 30, abc, "true"
CondValues == {<<"t","r","u","e">>, <<"f","a","l","s","e">>, <<"T","R","U","E">>, <<"3","0">>, <<"a","b","c">>, <<"\"","t","r","u","e","\"">>}

\* property:value, or property:operator:value
TwoPart(p, v) == p \o <<":">> \o v
ThreePart(p, o, v) == p \o <<":">> \o o \o <<":">> \o v

CondInputs ==
    {TwoPart(p, v) : p \in CondProperties, v \in CondValues}
    \cup {ThreePart(p, o, v) : p \in CondProperties, o \in CondOperators, v \in CondValues}

\* "project:'Newsletter Project' AND status:in-progress AND contexts:energy-high"
IssueInput ==
    <<"p","r","o","j","e","c","t",":","'","N","e","w","s","l","e","t","t","e","r"," ","P","r","o","j","e","c","t","'"," ","A","N","D"," ","s","t","a","t","u","s",":","i","n","-","p","r","o","g","r","e","s","s"," ","A","N","D"," ","c","o","n","t","e","x","t","s",":","e","n","e","r","g","y","-","h","i","g","h">>
\* "projects:contains:'Newsletter Project' AND contexts:contains:energy-high AND status:in-progress"
IssueContainsInput ==
    <<"p","r","o","j","e","c","t","s",":","c","o","n","t","a","i","n","s",":","'","N","e","w","s","l","e","t","t","e","r"," ","P","r","o","j","e","c","t","'"," ","A","N","D"," ","c","o","n","t","e","x","t","s",":","c","o","n","t","a","i","n","s",":","e","n","e","r","g","y","-","h","i","g","h"," ","A","N","D"," ","s","t","a","t","u","s",":","i","n","-","p","r","o","g","r","e","s","s">>
\* "(due:before:2025-08-20 OR tags:urgent) AND priority:high"
ReadmeInput ==
    <<"(","d","u","e",":","b","e","f","o","r","e",":","2","0","2","5","-","0","8","-","2","0"," ","O","R"," ","t","a","g","s",":","u","r","g","e","n","t",")"," ","A","N","D"," ","p","r","i","o","r","i","t","y",":","h","i","g","h">>
DocInputs == {IssueInput, IssueContainsInput, ReadmeInput}

InitCond == InitRun(CondInputs \cup DocInputs)

SpecCond == InitCond /\ [][Next]_vars

(***************************************************************************)
(* Runs of queryTasks on a tree that did not come from the parser: any     *)
(* conjunction value, any number of children, nested Groups, and a node of *)
(* another type.  A missing conjunction is written "undefined".            *)
(***************************************************************************)
MaxChildren == 2    \* children of the root Group
MaxNested == 1      \* children of a nested Group

LeafStatus ==
    Condition(CondId(ClockStart, 1), <<"s","t","a","t","u","s">>, <<"i","s">>,
              Str(<<"d","o","n","e">>))
LeafTags ==
    Condition(CondId(ClockStart, 2), <<"t","a","g","s">>, <<"c","o","n","t","a","i","n","s">>,
              Str(<<"a">>))
LeafEstimate ==
    Condition(CondId(ClockStart, 3), <<"t","i","m","e","E","s","t","i","m","a","t","e">>,
              <<"i","s">>, Num(30, 0))
LeafOther == [type |-> "other"]

EvalLeaves == {LeafStatus, LeafTags, LeafEstimate}
Conjunctions == {"and", "or", "xor", "undefined"}

NestedGroups ==
    {Group(c, ch) : c \in {"and", "or"},
                    ch \in UNION {[1..n -> EvalLeaves] : n \in 0..MaxNested}}

EvalNodes == EvalLeaves \cup {LeafOther} \cup NestedGroups

EvalTrees ==
    {[type |-> "group", id |-> RootId(ClockStart), conjunction |-> c, children |-> ch] :
        c \in Conjunctions, ch \in UNION {[1..n -> EvalNodes] : n \in 0..MaxChildren}}

\* tasks that make each leaf true, false or failing
EvalTasks ==
    {<<TaskOf(st, Arr(<<<<"a">>>>), est)>> :
        st \in {Str(<<"d","o","n","e">>), Str(<<"t","o","d","o">>)},
        est \in {Undef, Num(30, 0)}}

InitEval ==
    /\ expression = <<>>
    /\ pc = "parsed"
    /\ filterQuery \in EvalTrees
    /\ error = NoError
    /\ clock = ClockStart
    /\ random = <<>>
    /\ tasks = <<>>
    /\ listing = NoListing
    /\ pos = 0
    /\ lexed = <<>>
    /\ opener = ""
    /\ buffer = <<>>
    /\ jsonOutput = NoOutput

NextEval == QueryTasks(EvalTasks)

SpecEval == InitEval /\ [][NextEval]_vars

(***************************************************************************)
(* Runs of queryTasks on a sequence of several tasks, repeats included.    *)
(***************************************************************************)
MaxTasks == 3       \* tasks the fetch answers with

LeafPriorityLow ==
    Condition(CondId(ClockStart, 4), <<"p","r","i","o","r","i","t","y">>, <<"i","s">>,
              Str(<<"l","o","w">>))

\* {status: "done", priority: "high"} and {status: "todo", priority: "low"}
TaskDoneHigh ==
    (<<"s","t","a","t","u","s">> :> Str(<<"d","o","n","e">>))
    @@ (<<"p","r","i","o","r","i","t","y">> :> Str(<<"h","i","g","h">>))
TaskTodoLow ==
    (<<"s","t","a","t","u","s">> :> Str(<<"t","o","d","o">>))
    @@ (<<"p","r","i","o","r","i","t","y">> :> Str(<<"l","o","w">>))
\* a task with an estimate: {status: "done", tags: ["a"], timeEstimate: 30}
TaskEstimated == TaskOf(Str(<<"d","o","n","e">>), Arr(<<<<"a">>>>), Num(30, 0))

FilterTasks == {TaskDoneHigh, TaskTodoLow, TaskEstimated}
TaskSeqs == UNION {[1..n -> FilterTasks] : n \in 0..MaxTasks}

FilterLeaves == {LeafStatus, LeafPriorityLow, LeafTags, LeafEstimate}
FilterTrees ==
    {[type |-> "group", id |-> RootId(ClockStart), conjunction |-> c, children |-> ch] :
        c \in {"and", "or"}, ch \in UNION {[1..n -> FilterLeaves] : n \in 0..2}}

InitFilter ==
    /\ expression = <<>>
    /\ pc = "parsed"
    /\ filterQuery \in FilterTrees
    /\ error = NoError
    /\ clock = ClockStart
    /\ random = <<>>
    /\ tasks = <<>>
    /\ listing = NoListing
    /\ pos = 0
    /\ lexed = <<>>
    /\ opener = ""
    /\ buffer = <<>>
    /\ jsonOutput = NoOutput

NextFilter == QueryTasks(TaskSeqs)

SpecFilter == InitFilter /\ [][NextFilter]_vars

(***************************************************************************)
(* Runs of queryTasks on one Condition and one task: every operator, with  *)
(* values and task values of every kind of the data model.                 *)
(***************************************************************************)
MaxNum == 2         \* the numbers are -MaxNum .. MaxNum

Subject == <<"s","t","a","t","u","s">>     \* the property the Condition reads

\* "", a, A, ab, b, 10, 9
OpStrings == {<<>>, <<"a">>, <<"A">>, <<"a","b">>, <<"b">>, <<"1","0">>, <<"9">>}
OpNumbers == {Num(n, 0) : n \in (0 - MaxNum)..MaxNum}

\* operators: the 14 the parser emits, an alias the evaluator also handles,
\* and one that no table knows
OpNames == Range(validOperators) \cup {<<"b","e","f","o","r","e">>,
                                       <<"f","r","o","b","n","i","c","a","t","e">>}
OpValues == {Str(v) : v \in OpStrings} \cup OpNumbers \cup {Null}

\* what the task holds under the property: nothing, null, a string, a number,
\* or a sequence of strings
TaskValues ==
    {Undef, Null} \cup {Str(v) : v \in OpStrings} \cup OpNumbers
    \cup {Arr(<<>>), Arr(<<<<"a">>>>), Arr(<<<<"A","B">>, <<"b">>>>)}

OpTasks == {<<IF tv = Undef THEN <<>> ELSE (Subject :> tv)>> : tv \in TaskValues}

OpTrees ==
    {[type |-> "group", id |-> RootId(ClockStart), conjunction |-> "and",
      children |-> <<Condition(CondId(ClockStart, 1), Subject, o, v)>>] :
        o \in OpNames, v \in OpValues}

InitOp ==
    /\ expression = <<>>
    /\ pc = "parsed"
    /\ filterQuery \in OpTrees
    /\ error = NoError
    /\ clock = ClockStart
    /\ random = <<>>
    /\ tasks = <<>>
    /\ listing = NoListing
    /\ pos = 0
    /\ lexed = <<>>
    /\ opener = ""
    /\ buffer = <<>>
    /\ jsonOutput = NoOutput

NextOp == QueryTasks(OpTasks)

SpecOp == InitOp /\ [][NextOp]_vars

(***************************************************************************)
(* Runs in which Math.random() may give the same text again: random[i] is  *)
(* the text Math.random().toString(36).substr(2, 9) of the i-th draw.      *)
(***************************************************************************)
MaxDraw == 2        \* the texts a draw can give

IdInputs == {Render(ps) : ps \in ChainsOf(1) \cup ChainsOf(3) \cup ChainsOf(5)}

InitIds ==
    /\ expression \in IdInputs
    /\ pc = "start"
    /\ filterQuery = NoQuery
    /\ error = NoError
    /\ clock = ClockStart
    /\ random \in [1..NumColons(expression) -> 1..MaxDraw]
    /\ tasks = <<>>
    /\ listing = NoListing
    /\ pos = 0
    /\ lexed = <<>>
    /\ opener = ""
    /\ buffer = <<>>
    /\ jsonOutput = NoOutput

SpecIds == InitIds /\ [][Next]_vars

(***************************************************************************)
(* Runs on the expressions the documentation offers: the Examples of       *)
(* getHelpText and the --filter expressions of the README's Filter Syntax. *)
(***************************************************************************)
HelpExamples ==
    {
     \* priority:high
     <<"p","r","i","o","r","i","t","y",":","h","i","g","h">>,
     \* status:in-progress AND tags:urgent
     <<"s","t","a","t","u","s",":","i","n","-","p","r","o","g","r","e","s","s"," ","A","N","D"," ","t","a","g","s",":","u","r","g","e","n","t">>,
     \* (due:before:2025-08-20 OR tags:urgent) AND priority:high
     <<"(","d","u","e",":","b","e","f","o","r","e",":","2","0","2","5","-","0","8","-","2","0"," ","O","R"," ","t","a","g","s",":","u","r","g","e","n","t",")"," ","A","N","D"," ","p","r","i","o","r","i","t","y",":","h","i","g","h">>,
     \* title:contains:"meeting notes"
     <<"t","i","t","l","e",":","c","o","n","t","a","i","n","s",":","\"","m","e","e","t","i","n","g"," ","n","o","t","e","s","\"">>,
     \* estimate:greater-than:60
     <<"e","s","t","i","m","a","t","e",":","g","r","e","a","t","e","r","-","t","h","a","n",":","6","0">>,
     \* archived:not-checked AND status:not:done
     <<"a","r","c","h","i","v","e","d",":","n","o","t","-","c","h","e","c","k","e","d"," ","A","N","D"," ","s","t","a","t","u","s",":","n","o","t",":","d","o","n","e">>
    }

ReadmeExamples ==
    {
     \* priority:urgent
     <<"p","r","i","o","r","i","t","y",":","u","r","g","e","n","t">>,
     \* status:in-progress
     <<"s","t","a","t","u","s",":","i","n","-","p","r","o","g","r","e","s","s">>,
     \* tags:project
     <<"t","a","g","s",":","p","r","o","j","e","c","t">>,
     \* title:meeting
     <<"t","i","t","l","e",":","m","e","e","t","i","n","g">>,
     \* title:contains:notes
     <<"t","i","t","l","e",":","c","o","n","t","a","i","n","s",":","n","o","t","e","s">>,
     \* due:before:2025-08-20
     <<"d","u","e",":","b","e","f","o","r","e",":","2","0","2","5","-","0","8","-","2","0">>,
     \* scheduled:after:2025-08-10
     <<"s","c","h","e","d","u","l","e","d",":","a","f","t","e","r",":","2","0","2","5","-","0","8","-","1","0">>,
     \* priority:urgent AND tags:work
     <<"p","r","i","o","r","i","t","y",":","u","r","g","e","n","t"," ","A","N","D"," ","t","a","g","s",":","w","o","r","k">>,
     \* priority:urgent OR priority:high
     <<"p","r","i","o","r","i","t","y",":","u","r","g","e","n","t"," ","O","R"," ","p","r","i","o","r","i","t","y",":","h","i","g","h">>,
     \* (priority:urgent OR priority:high) AND tags:project
     <<"(","p","r","i","o","r","i","t","y",":","u","r","g","e","n","t"," ","O","R"," ","p","r","i","o","r","i","t","y",":","h","i","g","h",")"," ","A","N","D"," ","t","a","g","s",":","p","r","o","j","e","c","t">>,
     \* status:in-progress AND (due:before:2025-08-20 OR tags:urgent)
     <<"s","t","a","t","u","s",":","i","n","-","p","r","o","g","r","e","s","s"," ","A","N","D"," ","(","d","u","e",":","b","e","f","o","r","e",":","2","0","2","5","-","0","8","-","2","0"," ","O","R"," ","t","a","g","s",":","u","r","g","e","n","t",")">>
    }

InitDoc == InitRun(HelpExamples \cup ReadmeExamples)

SpecDoc == InitDoc /\ [][Next]_vars

(***************************************************************************)
(* Runs on one condition whose positions after the colons hold a token of  *)
(* any kind: a word, a quoted string, a connective, a colon, a parenthesis.*)
(***************************************************************************)
\* x, "or", or, AND, :, (, )
KindTexts == {<<"x">>, <<"\"","o","r","\"">>, <<"o","r">>, <<"A","N","D">>, <<":">>, <<"(">>, <<")">>}
KindProperties == {<<"t","a","g","s">>, <<"s","t","a","t","u","s">>, <<"a","r","c","h","i","v","e","d">>}
KindInputs ==
    {TwoPart(p, v) : p \in KindProperties, v \in KindTexts}
    \cup {ThreePart(p, o, v) : p \in KindProperties, o \in KindTexts \cup {<<"i","s">>}, v \in KindTexts}
    \cup {<<"s","t","a","t","u","s",":",":","x">>}     \* status::x

InitKind == InitRun(KindInputs)

SpecKind == InitKind /\ [][Next]_vars

(***************************************************************************)
(* Runs on one condition with a value of each shape: numerals, texts that  *)
(* start with a numeral, texts without one, quoted texts with spaces.      *)
(***************************************************************************)
\* the value as written
ValueTexts ==
    {<<"3","0">>, <<"3","0","a","b","c">>, <<"-","1",".","5">>, <<".","5">>, <<"1","e","2">>, <<"1",".","2",".","3">>, <<"\""," ","3","0","\"">>, <<"I","n","f","i","n","i","t","y">>,
     <<"a","b","c">>, <<"e","5">>, <<"-">>, <<"\"","\"">>, <<"\"","m","e","e","t","i","n","g"," ","n","o","t","e","s","\"">>, <<"'","i","t","\\","'","s","'">>}
\* title, status, tags, due, recurrence, archived, timeEstimate, estimate
ValueProperties ==
    {<<"t","i","t","l","e">>, <<"s","t","a","t","u","s">>, <<"t","a","g","s">>, <<"d","u","e">>, <<"r","e","c","u","r","r","e","n","c","e">>, <<"a","r","c","h","i","v","e","d">>,
     <<"t","i","m","e","E","s","t","i","m","a","t","e">>, <<"e","s","t","i","m","a","t","e">>}
ValueOperators ==
    {<<"i","s">>, <<"c","o","n","t","a","i","n","s">>, <<"g","r","e","a","t","e","r","-","t","h","a","n">>, <<"i","s","-","e","m","p","t","y">>, <<"c","h","e","c","k","e","d">>, <<"b","e","f","o","r","e">>}
ValueInputs ==
    {TwoPart(p, v) : p \in ValueProperties, v \in ValueTexts}
    \cup {ThreePart(p, o, v) : p \in ValueProperties, o \in ValueOperators, v \in ValueTexts}

InitValue == InitRun(ValueInputs)

SpecValue == InitValue /\ [][Next]_vars

(***************************************************************************)
(* Runs on expressions whose conditions fail the checks of createCondition *)
(* in every combination: property known or not, operator absent, known or  *)
(* not, value numeric or not.                                              *)
(***************************************************************************)
OrderProperties == {<<"s","t","a","t","u","s">>, <<"e","s","t","i","m","a","t","e">>, <<"f","a","k","e","p","r","o","p">>}
OrderOperators == {<<"i","s">>, <<"f","r","o","b","n","i","c","a","t","e">>}
OrderValues == {<<"3","0">>, <<"a","b","c">>}
OrderConds ==
    {TwoPart(p, v) : p \in OrderProperties, v \in OrderValues}
    \cup {ThreePart(p, o, v) : p \in OrderProperties, o \in OrderOperators, v \in OrderValues}
\* one condition that passes and one for each check that fails
OrderFew ==
    {<<"s","t","a","t","u","s",":","i","s",":","a","b","c">>, <<"f","a","k","e","p","r","o","p",":","f","r","o","b","n","i","c","a","t","e",":","a","b","c">>, <<"e","s","t","i","m","a","t","e",":","f","r","o","b","n","i","c","a","t","e",":","a","b","c">>,
     <<"e","s","t","i","m","a","t","e",":","i","s",":","a","b","c">>, <<"f","a","k","e","p","r","o","p",":","a","b","c">>}
OrderInputs ==
    OrderConds
    \cup {Render(<<a, c, b>>) : a \in OrderConds, c \in Connectives, b \in OrderConds}
    \cup {Render(<<LP, a, c, b, RP, d, e>>) :
            a \in OrderFew, c \in Connectives, b \in OrderFew, d \in Connectives, e \in OrderFew}

InitOrder == InitRun(OrderInputs)

SpecOrder == InitOrder /\ [][Next]_vars

(***************************************************************************)
(* Runs of parse step by step, on texts of quoted strings (quotes, the     *)
(* escape character, a word character, a space) and on texts of words      *)
(* (connectives in several letter cases, runs that join into one word,     *)
(* quoted connectives) with and without separators between them.           *)
(***************************************************************************)
MaxQuoted == 5      \* characters of a text of quoted strings
MaxWords == 2       \* words of a text of words

QuoteChars == {"a", "\"", "'", "\\", " "}
QuoteTexts == UNION {[1..n -> QuoteChars] : n \in 0..MaxQuoted}

\* AND, and, Or, AN, D, a-b.C, _9, "OR"
WordPieces == {<<"A","N","D">>, <<"a","n","d">>, <<"O","r">>, <<"A","N">>, <<"D">>, <<"a","-","b",".","C">>, <<"_","9">>, <<"\"","O","R","\"">>}
\* nothing, white space, a colon and a parenthesis
Separators == {<<>>, <<" ", "\t">>, <<":", "(">>}

RECURSIVE Concat(_)
Concat(ps) == IF ps = <<>> THEN <<>> ELSE Head(ps) \o Concat(Tail(ps))

WordTexts ==
    UNION {{Concat([k \in 1..n |-> ws[k][1] \o ws[k][2]]) :
                ws \in [1..n -> WordPieces \X Separators]} : n \in 1..MaxWords}

LexTexts == QuoteTexts \cup WordTexts

InitLex == InitRun(LexTexts)

NextLex ==
    \/ ParseEnter
    \/ TokenizeStep
    \/ TokenizeReturn
    \/ ParseTokenized

SpecLex == InitLex /\ [][NextLex]_vars

(***************************************************************************)
(* Runs of queryTasks on a flat Group of three or more children: Conditions*)
(* that hold, fail or raise, a node of another type, nested Groups.        *)
(***************************************************************************)
MaxFlat == 3        \* children of the flat Group

FlatNodes ==
    EvalLeaves \cup {LeafOther, Group("or", <<>>), Group("and", <<LeafStatus, LeafEstimate>>)}

FlatTrees ==
    {[type |-> "group", id |-> RootId(ClockStart), conjunction |-> c, children |-> ch] :
        c \in {"and", "or"}, ch \in UNION {[1..n -> FlatNodes] : n \in 3..MaxFlat}}

InitFlat ==
    /\ expression = <<>>
    /\ pc = "parsed"
    /\ filterQuery \in FlatTrees
    /\ error = NoError
    /\ clock = ClockStart
    /\ random = <<>>
    /\ tasks = <<>>
    /\ listing = NoListing
    /\ pos = 0
    /\ lexed = <<>>
    /\ opener = ""
    /\ buffer = <<>>
    /\ jsonOutput = NoOutput

NextFlat == QueryTasks(SingleTasks)

SpecFlat == InitFlat /\ [][NextFlat]_vars

(***************************************************************************)
(* Runs of parse iteration by iteration, on the texts of quoted strings    *)
(* and words, on well-formed expressions and on short sequences of pieces. *)
(***************************************************************************)
MaxLoopPieces == 3  \* pieces of an arbitrary sequence of pieces

LoopTexts ==
    LexTexts \cup IdInputs
    \cup {Render(ps) : ps \in UNION {[1..n -> Pieces] : n \in 1..MaxLoopPieces}}

InitLoops == InitRun(LoopTexts)

NextLoops ==
    \/ ParseEnter
    \/ LoopTurn
    \/ StringIter
    \/ StringEnd
    \/ WordIter
    \/ WordEnd
    \/ TokenizeReturn
    \/ ParseTokenized

SpecLoops == InitLoops /\ [][NextLoops]_vars

\* parse is one synchronous call: it runs on while it has a step to take.
\* The step from "tokenized" is enabled exactly when pc = "tokenized"; its
\* weak fairness is written with that in place of ENABLED.
FairLoops ==
    /\ SpecLoops
    /\ WF_vars(ParseEnter)
    /\ WF_vars(LoopTurn)
    /\ WF_vars(StringIter)
    /\ WF_vars(StringEnd)
    /\ WF_vars(WordIter)
    /\ WF_vars(WordEnd)
    /\ WF_vars(TokenizeReturn)
    /\ ([]<>(pc # "tokenized") \/ []<><<ParseTokenized>>_vars)

(***************************************************************************)
(* Runs of `list --filter ... --limit ... --json`: queryTasks on a tree    *)
(* with or without a limit, then the handler's cut and its JSON output.    *)
(***************************************************************************)
MaxLimit == 2       \* the largest filterQuery.limit a tree carries

\* more tasks than the default limit: 201 tasks, done and todo in turn
ManyTasks == [k \in 1..(DefaultLimit + 1) |-> IF k % 2 = 1 THEN TaskDoneHigh ELSE TaskTodoLow]
ManyDone == [k \in 1..(DefaultLimit + 1) |-> TaskDoneHigh]

ListTasks == TaskSeqs \cup {ManyTasks, ManyDone}

\* the trees of parse (no limit), and trees another producer gave a limit
ListTrees ==
    FilterTrees
    \cup {[type |-> "group", id |-> RootId(ClockStart), conjunction |-> "and",
           children |-> ch, limit |-> l] :
             ch \in UNION {[1..n -> {LeafStatus, LeafEstimate}] : n \in 0..1}, l \in 1..MaxLimit}

\* options.limit: absent, or the text given after --limit
ListOptions ==
    {Undef, Str(<<>>), Str(<<"0">>), Str(<<"1">>), Str(<<"2">>), Str(<<"-","1">>), Str(<<"a","b","c">>),
     Str(<<" ","2",".","9">>), Str(<<"0","x","2">>), Str(<<"2","5","0">>)}

InitList ==
    /\ expression = <<>>
    /\ pc = "parsed"
    /\ filterQuery \in ListTrees
    /\ error = NoError
    /\ clock = ClockStart
    /\ random = <<>>
    /\ tasks = <<>>
    /\ listing = NoListing
    /\ pos = 0
    /\ lexed = <<>>
    /\ opener = ""
    /\ buffer = <<>>
    /\ jsonOutput = NoOutput

NextList == QueryTasks(ListTasks) \/ ListJson(ListOptions)

SpecList == InitList /\ [][NextList]_vars

(***************************************************************************)
(* Reading an input back as pieces, and the tree an expression denotes     *)
(***************************************************************************)
\* the pieces of a text: its maximal runs without a space
RECURSIVE WordsFrom(_, _, _)
WordsFrom(s, word, acc) ==
    IF s = <<>> THEN (IF word = <<>> THEN acc ELSE Append(acc, word))
    ELSE IF Head(s) = " "
    THEN WordsFrom(Tail(s), <<>>, IF word = <<>> THEN acc ELSE Append(acc, word))
    ELSE WordsFrom(Tail(s), Append(word, Head(s)), acc)

Words(s) == WordsFrom(s, <<>>, <<>>)

IsCondPiece(p) == p \in Conds

\* N >= 2 conditions joined by the connective c and nothing else
IsFlatChain(ps, c) ==
    /\ Len(ps) >= 3
    /\ Len(ps) % 2 = 1
    /\ \A i \in DOMAIN ps : IF i % 2 = 1 THEN IsCondPiece(ps[i]) ELSE ps[i] = c

ConjunctionOf(c) == IF c = AND THEN "and" ELSE "or"

\* the Condition a condition piece alone parses to, carrying the k-th id drawn
ConditionOf(piece, k) == parse(piece, <<CondId(clock, random[k])>>, RootId(clock)).query.children[1]

Returned1 == pc \in {"parsed", "listed", "crashed"}

\* C1: an expression of N >= 2 conditions joined only by AND, or only by OR,
\* without parentheses, parses to a root Group with that conjunction whose
\* children are exactly the N Conditions in source order, none of them a Group.
C1_Flattening ==
    \A c \in Connectives :
        (pc # "start" /\ IsFlatChain(Words(expression), c)) =>
            /\ Returned1
            /\ filterQuery.type = "group"
            /\ filterQuery.conjunction = ConjunctionOf(c)
            /\ Len(filterQuery.children) = (Len(Words(expression)) + 1) \div 2
            /\ \A i \in DOMAIN filterQuery.children :
                 /\ filterQuery.children[i].type = "condition"
                 /\ filterQuery.children[i] = ConditionOf(Words(expression)[2 * i - 1], i)

\* an AND chain and an OR chain of four conditions have been parsed
C1_Witness ==
    /\ pc = "parsed"
    /\ IsFlatChain(Words(expression), OR)
    /\ Len(filterQuery.children) = 4
    /\ filterQuery.children[1].property # filterQuery.children[4].property

\* the tree the grammar gives the pieces lo..hi of a well-formed expression,
\* read by splitting: at the OR pieces outside parentheses, else at the AND
\* pieces outside parentheses, else by removing the enclosing parentheses
DepthAt(ps, i) ==
    Cardinality({j \in 1..(i - 1) : ps[j] = LP}) - Cardinality({j \in 1..(i - 1) : ps[j] = RP})

Tops(ps, lo, hi, c) == {i \in lo..hi : ps[i] = c /\ DepthAt(ps, i) = DepthAt(ps, lo)}

\* the k-th smallest element of a set of numbers
Kth(Q, k) == CHOOSE q \in Q : Cardinality({r \in Q : r < q}) = k - 1

\* the k-th of the segments that the positions Q cut lo..hi into
SegmentLo(Q, lo, k) == IF k = 1 THEN lo ELSE Kth(Q, k - 1) + 1
SegmentHi(Q, hi, k) == IF k = Cardinality(Q) + 1 THEN hi ELSE Kth(Q, k) - 1

CondRank(ps, i) == Cardinality({j \in 1..i : IsCondPiece(ps[j])})

RECURSIVE RefNode(_, _, _)
RefSplit(ps, lo, hi, Q, conjunction) ==
    Group(conjunction, [k \in 1..(Cardinality(Q) + 1) |->
                           RefNode(ps, SegmentLo(Q, lo, k), SegmentHi(Q, hi, k))])

RefNode(ps, lo, hi) ==
    IF Tops(ps, lo, hi, OR) # {} THEN RefSplit(ps, lo, hi, Tops(ps, lo, hi, OR), "or")
    ELSE IF Tops(ps, lo, hi, AND) # {} THEN RefSplit(ps, lo, hi, Tops(ps, lo, hi, AND), "and")
    ELSE IF ps[lo] = LP THEN RefNode(ps, lo + 1, hi - 1)
    ELSE ConditionOf(ps[lo], CondRank(ps, lo))

\* the root parse returns for a tree
RefRoot(node) ==
    IF node.type = "group"
    THEN [type |-> "group", id |-> RootId(clock), conjunction |-> node.conjunction,
          children |-> node.children]
    ELSE [type |-> "group", id |-> RootId(clock), conjunction |-> "and",
          children |-> <<node>>]

RefTree(ps) == RefRoot(RefNode(ps, 1, Len(ps)))

\* the parenthesis at i opens a sub-expression of two or more operands that
\* is itself an operand of a connective
OpensOperandGroup(ps, i) ==
    /\ ps[i] = LP
    /\ \E j \in (i + 1)..Len(ps) :
         /\ ps[j] = RP
         /\ DepthAt(ps, j) = DepthAt(ps, i) + 1
         /\ \A m \in (i + 1)..(j - 1) : ps[m] = RP => DepthAt(ps, m) > DepthAt(ps, i) + 1
         /\ Tops(ps, i + 1, j - 1, AND) \cup Tops(ps, i + 1, j - 1, OR) # {}
         /\ \/ i > 1 /\ ps[i - 1] \in Connectives
            \/ j < Len(ps) /\ ps[j + 1] \in Connectives

\* (A c1 B) c2 C
IsGroupThenCond(ps) ==
    /\ Len(ps) = 7
    /\ ps[1] = LP /\ IsCondPiece(ps[2]) /\ ps[3] \in Connectives /\ IsCondPiece(ps[4])
    /\ ps[5] = RP /\ ps[6] \in Connectives /\ IsCondPiece(ps[7])

\* C2: a parenthesized sub-expression of two or more operands that is an
\* operand of a connective stays a Group child of the enclosing Group, never
\* spliced into it, whatever its conjunction: the tree is the one the grammar
\* gives, and (A c1 B) c2 C is the 2-child c2-Group of the c1-Group [A, B] and C.
C2_ParenNesting ==
    (pc # "start" /\ Words(expression) \in WellFormed) =>
        /\ (\E i \in DOMAIN Words(expression) : OpensOperandGroup(Words(expression), i)) =>
              /\ Returned1
              /\ filterQuery = RefTree(Words(expression))
        /\ IsGroupThenCond(Words(expression)) =>
              /\ Returned1
              /\ filterQuery.conjunction = ConjunctionOf(Words(expression)[6])
              /\ Len(filterQuery.children) = 2
              /\ filterQuery.children[1] =
                    Group(ConjunctionOf(Words(expression)[3]),
                          <<ConditionOf(Words(expression)[2], 1),
                            ConditionOf(Words(expression)[4], 2)>>)
              /\ filterQuery.children[2] = ConditionOf(Words(expression)[7], 3)

\* (A AND B) AND C has been parsed: an and-Group inside the and-Group
C2_Witness ==
    /\ pc = "parsed"
    /\ IsGroupThenCond(Words(expression))
    /\ Words(expression)[3] = AND /\ Words(expression)[6] = AND
    /\ Len(filterQuery.children) = 2
    /\ filterQuery.children[1].type = "group"
    /\ filterQuery.children[1].conjunction = "and"

\* every well-formed expression parses to the tree the grammar gives
AllWellFormedAsGrammar ==
    (pc # "start" /\ Words(expression) \in WellFormed) =>
        Returned1 /\ filterQuery = RefTree(Words(expression))

\* conditions joined by connectives, no parentheses, both connectives used
IsMixedChain(ps) ==
    /\ Len(ps) >= 5
    /\ Len(ps) % 2 = 1
    /\ \A i \in DOMAIN ps : IF i % 2 = 1 THEN IsCondPiece(ps[i]) ELSE ps[i] \in Connectives
    /\ \E i, j \in DOMAIN ps : ps[i] = AND /\ ps[j] = OR

\* the code's decision on one condition piece of the expression
HoldsAt(task, ps, i) == evaluateCondition(task, ConditionOf(ps[i], CondRank(ps, i))) = "true"

\* the value of a chain without parentheses read with AND above OR: some
\* maximal run of conditions between two ORs holds throughout
AndAboveOr(task, ps) ==
    \E i \in DOMAIN ps :
        /\ IsCondPiece(ps[i])
        /\ \A j \in DOMAIN ps :
             (IsCondPiece(ps[j]) /\ \A m \in (IF i < j THEN i ELSE j)..(IF i < j THEN j ELSE i) :
                                       ps[m] # OR)
                 => HoldsAt(task, ps, j)

\* the tree shape of C3: the grammar's tree, and the two three-condition cases
C3_Shape ==
    (pc # "start" /\ IsMixedChain(Words(expression))) =>
        /\ Returned1
        /\ filterQuery.conjunction = "or"
        /\ filterQuery = RefTree(Words(expression))
        /\ (Len(Words(expression)) = 5 /\ Words(expression)[2] = OR) =>
              filterQuery.children =
                  <<ConditionOf(Words(expression)[1], 1),
                    Group("and", <<ConditionOf(Words(expression)[3], 2),
                                   ConditionOf(Words(expression)[5], 3)>>)>>
        /\ (Len(Words(expression)) = 5 /\ Words(expression)[2] = AND) =>
              filterQuery.children =
                  <<Group("and", <<ConditionOf(Words(expression)[1], 1),
                                   ConditionOf(Words(expression)[3], 2)>>),
                    ConditionOf(Words(expression)[5], 3)>>

\* C3: in an expression without parentheses that mixes AND and OR, AND binds
\* tighter: A OR B AND C is or[A, and[B, C]], A AND B OR C is or[and[A, B], C],
\* and for any task the tree's inclusion decision is the boolean value of the
\* expression read with AND above OR.
C3_Precedence ==
    /\ C3_Shape
    /\ (Returned1 /\ IsMixedChain(Words(expression))) =>
          \A task \in TaskSet :
              evaluateGroup(task, filterQuery) = Bool(AndAboveOr(task, Words(expression)))

\* the same on the tasks on which no condition of the expression throws
C3_PrecedenceWhereDecided ==
    /\ C3_Shape
    /\ (Returned1 /\ IsMixedChain(Words(expression))) =>
          \A task \in TaskSet :
              (\A i \in DOMAIN Words(expression) :
                  IsCondPiece(Words(expression)[i]) =>
                      evaluateCondition(task, ConditionOf(Words(expression)[i], 1)) # "throw")
                  => evaluateGroup(task, filterQuery)
                         = Bool(AndAboveOr(task, Words(expression)))

\* the pieces are one condition, bare or inside parentheses
IsOneCondition(ps) ==
    \/ Len(ps) = 1 /\ IsCondPiece(ps[1])
    \/ Len(ps) = 3 /\ ps[1] = LP /\ IsCondPiece(ps[2]) /\ ps[3] = RP

TheCondition(ps) == IF Len(ps) = 1 THEN ps[1] ELSE ps[2]

TopConnectives(ps) == Tops(ps, 1, Len(ps), AND) \cup Tops(ps, 1, Len(ps), OR)

\* C4: every successful parse returns a node of type group.  One condition
\* alone gives an and-Group with that Condition as its only child; when the
\* top level is a chain, the root has the chain's conjunction and the chain's
\* operands as its children, with no wrapping level in between.
C4_RootShape ==
    /\ Returned1 => (filterQuery.type = "group" /\ filterQuery.id = RootId(clock))
    /\ (pc # "start" /\ IsOneCondition(Words(expression))) =>
          /\ Returned1
          /\ filterQuery.conjunction = "and"
          /\ filterQuery.children = <<ConditionOf(TheCondition(Words(expression)), 1)>>
    /\ (pc # "start" /\ Words(expression) \in WellFormed
          /\ TopConnectives(Words(expression)) # {}) =>
          /\ Returned1
          /\ filterQuery.conjunction =
                (IF Tops(Words(expression), 1, Len(Words(expression)), OR) # {}
                 THEN "or" ELSE "and")
          /\ filterQuery.children = RefNode(Words(expression), 1, Len(Words(expression))).children
          /\ Len(filterQuery.children) >= 2

\* an expression whose top level is an OR chain over a parenthesised Group
\* has been parsed and its root carries the operands directly
C4_Witness ==
    /\ pc = "parsed"
    /\ Words(expression) \in WellFormed
    /\ Tops(Words(expression), 1, Len(Words(expression)), OR) # {}
    /\ filterQuery.conjunction = "or"
    /\ \E i \in DOMAIN filterQuery.children : filterQuery.children[i].type = "group"

\* C5: parse succeeds only when the whole sequence of tokens matches orExpr:
\* (), an unclosed (, an unmatched or extra ), and tokens left over after a
\* complete expression are parse errors, and no tree is built from a prefix.
C5_GrammarAcceptance ==
    Returned1 => Words(expression) \in WellFormed

\* what does hold: a returned tree is the tree of a well-formed prefix of the pieces
C5_TreeOfAPrefix ==
    Returned1 =>
        \E n \in 1..Len(Words(expression)) :
            /\ SubSeq(Words(expression), 1, n) \in WellFormed
            /\ filterQuery = RefTree(SubSeq(Words(expression), 1, n))

(***************************************************************************)
(* Malformed inputs                                                        *)
(***************************************************************************)
\* reading a text character by character: outside a quoted string, inside
\* one opened by q, or after the escape character inside one
RECURSIVE LexScan(_, _, _)
LexScan(s, q, escaped) ==
    IF s = <<>> THEN (IF q = "" THEN [end |-> "complete"] ELSE [end |-> "unterminated"])
    ELSE IF q = ""
    THEN IF Head(s) \in {"\"", "'"} THEN LexScan(Tail(s), Head(s), FALSE)
         ELSE IF IsSpace(Head(s)) \/ IsWordChar(Head(s)) \/ Head(s) \in {"(", ")", ":"}
         THEN LexScan(Tail(s), "", FALSE)
         ELSE [end |-> "unsupported", char |-> Head(s)]
    ELSE IF escaped THEN LexScan(Tail(s), q, FALSE)
    ELSE IF Head(s) = q THEN LexScan(Tail(s), "", FALSE)
    ELSE IF Head(s) = "\\" /\ Len(s) > 1 THEN LexScan(Tail(s), q, TRUE)
    ELSE LexScan(Tail(s), q, FALSE)

IsBlank(s) == \A i \in DOMAIN s : IsSpace(s[i])

\* parse threw this error from inside its try block, and returned no tree
FailsWith(message, detail) ==
    /\ pc = "failed"
    /\ filterQuery = NoQuery
    /\ error = [message |-> message, detail |-> detail, wrapped |-> TRUE]

EndsAfterConnective(ps) == ps # <<>> /\ ps[Len(ps)] \in Connectives

\* the malformed inputs that are told apart by their text alone
C6_LexicalAndExamples ==
    pc # "start" =>
        /\ IsBlank(expression) =>
              /\ pc = "failed"
              /\ filterQuery = NoQuery
              /\ error = Err("Filter expression cannot be empty", <<>>)
        /\ (~IsBlank(expression) /\ LexScan(expression, "", FALSE).end = "unterminated") =>
              FailsWith("Unterminated quoted string", <<>>)
        /\ (~IsBlank(expression) /\ LexScan(expression, "", FALSE).end = "unsupported") =>
              FailsWith("Unexpected character: ", <<LexScan(expression, "", FALSE).char>>)
        /\ expression = IncompleteInput => FailsWith("Incomplete condition", <<>>)
        /\ expression = UnknownPropertyInput =>
              FailsWith("Unknown property: ", <<"f","a","k","e","p","r","o","p">>)
        /\ expression = UnknownOperatorInput =>
              FailsWith("Unknown operator: ", <<"f","r","o","b","n","i","c","a","t","e">>)
        /\ expression = UnclosedInput => FailsWith("Missing closing parenthesis", <<>>)

\* a well-formed expression followed by one connective
C6_EndAfterWellFormed ==
    (/\ pc # "start"
     /\ EndsAfterConnective(Words(expression))
     /\ SubSeq(Words(expression), 1, Len(Words(expression)) - 1) \in WellFormed) =>
        FailsWith("Unexpected end of expression", <<>>)

\* C6: each malformed input fails the parse call with an error naming its
\* cause, and no tree is returned: an empty or whitespace-only expression
\* (before tokenizing), an unterminated quoted string, an unsupported
\* character, `priority:`, `fakeprop:x`, `tags:frobnicate:x`, `(status:done`,
\* and an expression ending after a connective.
C6_ErrorTaxonomy ==
    /\ C6_LexicalAndExamples
    /\ (pc # "start" /\ EndsAfterConnective(Words(expression))) =>
          /\ pc = "failed"
          /\ filterQuery = NoQuery

(***************************************************************************)
(* Conditions                                                              *)
(***************************************************************************)
\* the fields of a text between its colons
RECURSIVE FieldsFrom(_, _, _)
FieldsFrom(s, field, acc) ==
    IF s = <<>> THEN Append(acc, field)
    ELSE IF Head(s) = ":" THEN FieldsFrom(Tail(s), <<>>, Append(acc, field))
    ELSE FieldsFrom(Tail(s), Append(field, Head(s)), acc)

Fields(s) == FieldsFrom(s, <<>>, <<>>)

\* the expression is one condition written without spaces
IsOneCond == Len(Words(expression)) = 1 /\ Len(Fields(expression)) \in {2, 3}
IsTwoPart == Len(Words(expression)) = 1 /\ Len(Fields(expression)) = 2
IsThreePart == Len(Words(expression)) = 1 /\ Len(Fields(expression)) = 3

PropertyText == Fields(expression)[1]
OperatorText == Fields(expression)[2]
\* the value as written, and the value without its quotes
ValueText == Fields(expression)[Len(Fields(expression))]
Unquoted(v) == IF v # <<>> /\ Head(v) = "\"" THEN SubSeq(v, 2, Len(v) - 1) ELSE v

\* the Conditions of a tree, at any depth
RECURSIVE ConditionsIn(_)
ConditionsIn(node) ==
    IF node.type = "condition" THEN {node}
    ELSE UNION {ConditionsIn(node.children[i]) : i \in DOMAIN node.children}

\* the aliases and the operators as the documentation lists them
AliasSpellings ==
    {<<"t","a","g">>, <<"c","o","n","t","e","x","t">>, <<"p","r","o","j","e","c","t">>,
     <<"c","r","e","a","t","e","d">>, <<"m","o","d","i","f","i","e","d">>,
     <<"c","o","m","p","l","e","t","e","d">>, <<"e","s","t","i","m","a","t","e">>,
     <<"e","q","u","a","l","s">>, <<"n","o","t","-","e","q","u","a","l","s">>,
     <<"b","e","f","o","r","e">>, <<"a","f","t","e","r">>,
     <<"o","n","-","o","r","-","b","e","f","o","r","e">>,
     <<"o","n","-","o","r","-","a","f","t","e","r">>,
     <<"g","r","e","a","t","e","r","-","t","h","a","n">>, <<"l","e","s","s","-","t","h","a","n">>,
     <<"e","m","p","t","y">>, <<"n","o","t","-","e","m","p","t","y">>,
     <<"c","h","e","c","k","e","d">>, <<"n","o","t","-","c","h","e","c","k","e","d">>}

ResolvesToValid(o) ==
    \/ o \in Range(validOperators)
    \/ o \in DOMAIN operatorAliases /\ operatorAliases[o] \in Range(validOperators)

KnownProperty(p) == p \in DOMAIN validProperties \/ p \in DOMAIN propertyAliases

CanonicalOf(p) ==
    IF p = <<"t","a","g">> THEN <<"t","a","g","s">>
    ELSE IF p = <<"c","o","n","t","e","x","t">> THEN <<"c","o","n","t","e","x","t","s">>
    ELSE IF p = <<"p","r","o","j","e","c","t">> THEN <<"p","r","o","j","e","c","t","s">>
    ELSE IF p = <<"c","r","e","a","t","e","d">> THEN <<"f","i","l","e",".","c","t","i","m","e">>
    ELSE IF p = <<"m","o","d","i","f","i","e","d">> THEN <<"f","i","l","e",".","m","t","i","m","e">>
    ELSE IF p = <<"c","o","m","p","l","e","t","e","d">> THEN <<"c","o","m","p","l","e","t","e","d","D","a","t","e">>
    ELSE IF p = <<"e","s","t","i","m","a","t","e">> THEN <<"t","i","m","e","E","s","t","i","m","a","t","e">>
    ELSE p

IsPropertyAlias(p) == CanonicalOf(p) # p

SchemaKeys ==
    {<<"t","i","t","l","e">>, <<"s","t","a","t","u","s">>, <<"p","r","i","o","r","i","t","y">>,
     <<"t","a","g","s">>, <<"c","o","n","t","e","x","t","s">>, <<"p","r","o","j","e","c","t","s">>,
     <<"d","u","e">>, <<"s","c","h","e","d","u","l","e","d">>,
     <<"c","o","m","p","l","e","t","e","d","D","a","t","e">>,
     <<"f","i","l","e",".","c","t","i","m","e">>, <<"f","i","l","e",".","m","t","i","m","e">>,
     <<"a","r","c","h","i","v","e","d">>, <<"t","i","m","e","E","s","t","i","m","a","t","e">>,
     <<"r","e","c","u","r","r","e","n","c","e">>,
     <<"s","t","a","t","u","s",".","i","s","C","o","m","p","l","e","t","e","d">>}

\* the same condition with the canonical property name written out
CanonicalText ==
    CanonicalOf(PropertyText) \o SubSeq(expression, Len(PropertyText) + 1, Len(expression))

OutcomeOf(text) == parse(text, CondIds, RootId(clock))

\* C8: a condition written with a property alias parses to a Condition whose
\* property is the canonical name and which is otherwise the Condition of the
\* same text written with the canonical name (or fails with the same error);
\* a name that is neither an alias nor a schema key fails with unknown property.
C8_PropertyAliases ==
    /\ (pc # "start" /\ IsOneCond /\ IsPropertyAlias(PropertyText)) =>
          /\ filterQuery = OutcomeOf(CanonicalText).query
          /\ error = OutcomeOf(CanonicalText).error
          /\ Returned1 = OutcomeOf(CanonicalText).ok
          /\ Returned1 => filterQuery.children[1].property = CanonicalOf(PropertyText)
          /\ (IsTwoPart /\ PropertyText # <<"e","s","t","i","m","a","t","e">>) => Returned1
    /\ (pc # "start" /\ IsOneCond /\ ~IsPropertyAlias(PropertyText)
          /\ PropertyText \notin SchemaKeys) =>
          FailsWith("Unknown property: ", PropertyText)

\* created:before:30 has been parsed to a Condition on file.ctime
C8_Witness ==
    /\ pc = "parsed"
    /\ IsThreePart
    /\ PropertyText = <<"c","r","e","a","t","e","d">>
    /\ filterQuery.children[1].property = <<"f","i","l","e",".","c","t","i","m","e">>

\* the operator the documentation gives a two-part condition
InferredFor(p, v) ==
    IF p = <<"t","i","t","l","e">> THEN <<"c","o","n","t","a","i","n","s">>
    ELSE IF p \in {<<"t","a","g","s">>, <<"c","o","n","t","e","x","t","s">>,
                   <<"p","r","o","j","e","c","t","s">>}
    THEN <<"c","o","n","t","a","i","n","s">>
    ELSE IF p \in {<<"a","r","c","h","i","v","e","d">>,
                   <<"s","t","a","t","u","s",".","i","s","C","o","m","p","l","e","t","e","d">>}
    THEN IF v = <<"t","r","u","e">> THEN <<"i","s","-","c","h","e","c","k","e","d">>
         ELSE <<"i","s","-","n","o","t","-","c","h","e","c","k","e","d">>
    ELSE <<"i","s">>

IsBooleanKey(p) ==
    p \in {<<"a","r","c","h","i","v","e","d">>,
           <<"s","t","a","t","u","s",".","i","s","C","o","m","p","l","e","t","e","d">>}

IsNumericKey(p) == p = <<"t","i","m","e","E","s","t","i","m","a","t","e">>

\* C9: a two-part condition property:value gets its operator from the
\* property's value-kind: text contains; tags, contexts, projects contains;
\* status, priority is; date, numeric, special is; boolean is-checked when the
\* value is exactly the string true and is-not-checked for every other value,
\* the Condition's value being null.
C9_OperatorInference ==
    (pc # "start" /\ IsTwoPart /\ CanonicalOf(PropertyText) \in SchemaKeys) =>
        /\ ~IsNumericKey(CanonicalOf(PropertyText)) => Returned1
        /\ Returned1 =>
              /\ Len(filterQuery.children) = 1
              /\ filterQuery.children[1].type = "condition"
              /\ filterQuery.children[1].property = CanonicalOf(PropertyText)
              /\ filterQuery.children[1].operator =
                    InferredFor(CanonicalOf(PropertyText), Unquoted(ValueText))
              /\ IsBooleanKey(CanonicalOf(PropertyText)) =>
                    filterQuery.children[1].value = Null
              /\ (~IsBooleanKey(CanonicalOf(PropertyText))
                    /\ ~IsNumericKey(CanonicalOf(PropertyText))) =>
                    filterQuery.children[1].value = Str(Unquoted(ValueText))

\* archived:TRUE has been parsed: is-not-checked, because the text is not `true`
C9_Witness ==
    /\ pc = "parsed"
    /\ IsTwoPart
    /\ PropertyText = <<"a","r","c","h","i","v","e","d">>
    /\ ValueText = <<"T","R","U","E">>
    /\ filterQuery.children[1].operator = <<"i","s","-","n","o","t","-","c","h","e","c","k","e","d">>
    /\ filterQuery.children[1].value = Null

(***************************************************************************)
(* Group evaluation                                                        *)
(***************************************************************************)
Evaluated == pc \in {"listed", "crashed"}

\* queryTasks kept the one task it fetched
Accepted == pc = "listed" /\ listing.filtered = 1

ChildTrue(task, g, i) == evaluateNode(task, g.children[i]) = "true"

\* the rule of a Group, for the outcome `isTrue` of evaluating it
GroupRule(task, g, isTrue) ==
    IF g.children = <<>> THEN isTrue
    ELSE IF g.conjunction = "or"
    THEN isTrue <=> \E i \in DOMAIN g.children : ChildTrue(task, g, i)
    ELSE isTrue <=> \A i \in DOMAIN g.children : ChildTrue(task, g, i)

NestedIn(g) == {g.children[i] : i \in {j \in DOMAIN g.children : g.children[j].type = "group"}}

NoChildThrows(task, g) ==
    \A i \in DOMAIN g.children : evaluateNode(task, g.children[i]) # "throw"

\* C10: a Group with no children is true; with conjunction `or` it is true
\* iff at least one child evaluates true; with any other conjunction value,
\* `and`, unknown or missing, it is true iff every child evaluates true;
\* nested Groups follow the same rule.
C10_GroupEvaluation ==
    Evaluated =>
        /\ GroupRule(tasks[1], filterQuery, Accepted)
        /\ \A g \in NestedIn(filterQuery) :
              GroupRule(tasks[1], g, evaluateGroup(tasks[1], g) = "true")

\* the rule does hold of every Group none of whose children fails
C10_WhereNoChildThrows ==
    Evaluated =>
        /\ NoChildThrows(tasks[1], filterQuery) =>
              /\ pc = "listed"
              /\ GroupRule(tasks[1], filterQuery, Accepted)
        /\ \A g \in NestedIn(filterQuery) :
              NoChildThrows(tasks[1], g) =>
                  GroupRule(tasks[1], g, evaluateGroup(tasks[1], g) = "true")

(***************************************************************************)
(* The filter                                                              *)
(***************************************************************************)
RootTrue(t) == evaluateGroup(t, filterQuery) = "true"

\* the tasks of ts for which the root Group is true, in the order of ts
RECURSIVE Selected(_)
Selected(ts) ==
    IF ts = <<>> THEN <<>>
    ELSE (IF RootTrue(Head(ts)) THEN <<Head(ts)>> ELSE <<>>) \o Selected(Tail(ts))

TreeOf(c, ch) ==
    [type |-> "group", id |-> RootId(ClockStart), conjunction |-> c, children |-> ch]

\* C11: the result of queryTasks' filtering is the subsequence of the fetched
\* tasks for which the root Group is true, in fetch order, repeats kept.  On
\* [{status: done, priority: high}, {status: todo, priority: low}] the tree
\* of status:is:done OR priority:is:low keeps both, that of status:is:done AND
\* priority:is:low keeps none, and an and-Group without children keeps all.
C11_OrderPreservingFilter ==
    Evaluated =>
        /\ pc = "listed"
        /\ listing.tasks = Selected(tasks)
        /\ tasks = <<TaskDoneHigh, TaskTodoLow>> =>
              /\ filterQuery = TreeOf("or", <<LeafStatus, LeafPriorityLow>>) =>
                    listing.tasks = tasks
              /\ filterQuery = TreeOf("and", <<LeafStatus, LeafPriorityLow>>) =>
                    listing.tasks = <<>>
              /\ filterQuery = TreeOf("and", <<>>) => listing.tasks = tasks

\* the same, of the runs in which queryTasks returns
C11_WhereListed ==
    pc = "listed" =>
        /\ listing.tasks = Selected(tasks)
        /\ tasks = <<TaskDoneHigh, TaskTodoLow>> =>
              /\ filterQuery = TreeOf("or", <<LeafStatus, LeafPriorityLow>>) =>
                    listing.tasks = tasks
              /\ filterQuery = TreeOf("and", <<LeafStatus, LeafPriorityLow>>) =>
                    listing.tasks = <<>>
              /\ filterQuery = TreeOf("and", <<>>) => listing.tasks = tasks

\* queryTasks returns unless the evaluation of some fetched task throws
C11_ListedUnlessThrown ==
    Evaluated =>
        (pc = "crashed" <=>
            \E i \in DOMAIN tasks : evaluateGroup(tasks[i], filterQuery) = "throw")

(***************************************************************************)
(* Operators                                                               *)
(***************************************************************************)
\* the one Condition under the root, and what the task holds for it
TheCond == filterQuery.children[1]
TaskValue == Get(tasks[1], TheCond.property)

OpIs == <<"i","s">>
OpIsNot == <<"i","s","-","n","o","t">>
OpContains == <<"c","o","n","t","a","i","n","s">>
OpDoesNotContain == <<"d","o","e","s","-","n","o","t","-","c","o","n","t","a","i","n">>
OpIsEmpty == <<"i","s","-","e","m","p","t","y">>
OpIsNotEmpty == <<"i","s","-","n","o","t","-","e","m","p","t","y">>

\* equality and substring of two texts, letter case aside
SameIgnoringCase(a, b) == toLowerCase(a) = toLowerCase(b)
SubstringIgnoringCase(part, whole) ==
    \E i \in 0..(Len(whole) - Len(part)) :
        SubSeq(toLowerCase(whole), i + 1, i + Len(part)) = toLowerCase(part)

Absent(tv) == tv.k \in {"undef", "null"}

\* what the table of the operators gives `is` and `contains` on a string
\* value v: a scalar is compared as the text it holds
IsExpected(tv, v) ==
    \/ tv.k = "arr" /\ \E i \in DOMAIN tv.a : SameIgnoringCase(tv.a[i], v)
    \/ tv.k = "str" /\ SameIgnoringCase(tv.s, v)

ContainsExpected(tv, v) ==
    \/ tv.k = "arr" /\ \E i \in DOMAIN tv.a : SubstringIgnoringCase(v, tv.a[i])
    \/ tv.k = "str" /\ SubstringIgnoringCase(v, tv.s)

\* an empty string and a number are left to either decision
Undisputed(tv) == tv.k \in {"undef", "null", "arr"} \/ (tv.k = "str" /\ tv.s # <<>>)

\* C12: on a string value, `is` is true iff the property is an array with
\* an element equal to the value ignoring case, or a present scalar equal to
\* it ignoring case; `contains` is true iff the property is an array with an
\* element containing the value ignoring case, or a present scalar containing
\* it; both are false when the property is absent.  Every task gets a decision.
C12_StringMatching ==
    (Evaluated /\ TheCond.value.k = "str" /\ TheCond.operator \in {OpIs, OpContains}) =>
        /\ pc = "listed"
        /\ Absent(TaskValue) => ~Accepted
        /\ (Undisputed(TaskValue) /\ TheCond.operator = OpIs) =>
              (Accepted <=> IsExpected(TaskValue, TheCond.value.s))
        /\ (Undisputed(TaskValue) /\ TheCond.operator = OpContains) =>
              (Accepted <=> ContainsExpected(TaskValue, TheCond.value.s))

\* the same, of the tasks whose property is absent, a string or an array
C12_WhereStrings ==
    (Evaluated /\ TheCond.value.k = "str" /\ TheCond.operator \in {OpIs, OpContains}
       /\ TaskValue.k \in {"undef", "null", "str", "arr"}) =>
        /\ pc = "listed"
        /\ Absent(TaskValue) => ~Accepted
        /\ (Undisputed(TaskValue) /\ TheCond.operator = OpIs) =>
              (Accepted <=> IsExpected(TaskValue, TheCond.value.s))
        /\ (Undisputed(TaskValue) /\ TheCond.operator = OpContains) =>
              (Accepted <=> ContainsExpected(TaskValue, TheCond.value.s))
        /\ TaskValue = Str(<<>>) => ~Accepted

\* the decision of the Condition of this run with another operator in its place
DecisionWith(operator) ==
    evaluateCondition(tasks[1], [TheCond EXCEPT !.operator = operator])

PositiveOf(operator) ==
    IF operator = OpIsNot THEN OpIs
    ELSE IF operator = OpDoesNotContain THEN OpContains
    ELSE OpIsEmpty

Falsy(tv) == tv = Str(<<>>) \/ tv = Num(0, 0)

IsEmptyExpected(tv) == Absent(tv) \/ Falsy(tv) \/ (tv.k = "arr" /\ tv.a = <<>>)

\* C13: on every task and every value, is-not gives the opposite decision
\* to is, does-not-contain the opposite to contains, and is-not-empty the
\* opposite to is-empty, where is-empty is true iff the property is absent,
\* falsy or a zero-length array.
C13_NegationPairs ==
    /\ (Evaluated /\ TheCond.operator \in {OpIsNot, OpDoesNotContain, OpIsNotEmpty}) =>
          /\ pc = "listed"
          /\ DecisionWith(PositiveOf(TheCond.operator)) \in {"true", "false"}
          /\ Accepted <=> DecisionWith(PositiveOf(TheCond.operator)) = "false"
    /\ (Evaluated /\ TheCond.operator = OpIsEmpty) =>
          /\ pc = "listed"
          /\ Accepted <=> IsEmptyExpected(TaskValue)

\* the pairs are opposite wherever the positive operator has a decision, and
\* where it has none the negative one has none either
C13_WhereDecided ==
    /\ (Evaluated /\ TheCond.operator \in {OpIsNot, OpDoesNotContain, OpIsNotEmpty}) =>
          IF DecisionWith(PositiveOf(TheCond.operator)) = "throw"
          THEN pc = "crashed"
          ELSE /\ pc = "listed"
               /\ Accepted <=> DecisionWith(PositiveOf(TheCond.operator)) = "false"
    /\ (Evaluated /\ TheCond.operator \in {OpIsEmpty, OpIsNotEmpty}) =>
          /\ pc = "listed"
          /\ Accepted <=> (IsEmptyExpected(TaskValue) <=> TheCond.operator = OpIsEmpty)

OpIsBefore == <<"i","s","-","b","e","f","o","r","e">>
OpIsAfter == <<"i","s","-","a","f","t","e","r">>
OpIsOnOrBefore == <<"i","s","-","o","n","-","o","r","-","b","e","f","o","r","e">>
OpIsOnOrAfter == <<"i","s","-","o","n","-","o","r","-","a","f","t","e","r">>
OpIsGreaterThan == <<"i","s","-","g","r","e","a","t","e","r","-","t","h","a","n">>
OpIsLessThan == <<"i","s","-","l","e","s","s","-","t","h","a","n">>
OrderingOperators ==
    {OpIsBefore, OpIsAfter, OpIsOnOrBefore, OpIsOnOrAfter, OpIsGreaterThan, OpIsLessThan}

\* the integer a number value stands for
IntOf(v) == v.m * Pow10(v.x)

\* the order of two texts: the first differing character decides, a proper
\* prefix comes first
RECURSIVE TextBefore(_, _)
TextBefore(a, b) ==
    IF b = <<>> THEN FALSE
    ELSE IF a = <<>> THEN TRUE
    ELSE IF Head(a) = Head(b) THEN TextBefore(Tail(a), Tail(b))
    ELSE CharCode(Head(a)) < CharCode(Head(b))

\* value < target for two numbers or two texts
Before(tv, target) ==
    IF tv.k = "num" THEN IntOf(tv) < IntOf(target) ELSE TextBefore(tv.s, target.s)

\* the number a numeral stands for; 10 and 9 are the numerals among the texts
IsNumeral(v) == v.k = "num" \/ v \in {Str(<<"1","0">>), Str(<<"9">>)}
NumeralOf(v) ==
    IF v.k = "num" THEN IntOf(v) ELSE IF v = Str(<<"1","0">>) THEN 10 ELSE 9

OrderingExpected(operator, tv, target) ==
    IF operator = OpIsBefore THEN Before(tv, target)
    ELSE IF operator = OpIsAfter THEN Before(target, tv)
    ELSE IF operator = OpIsOnOrBefore THEN ~Before(target, tv)
    ELSE IF operator = OpIsOnOrAfter THEN ~Before(tv, target)
    ELSE IF operator = OpIsGreaterThan THEN NumeralOf(tv) > NumeralOf(target)
    ELSE NumeralOf(tv) < NumeralOf(target)

\* the task value and the target can be compared without conversion
Comparable(operator, tv, target) ==
    IF operator \in {OpIsGreaterThan, OpIsLessThan}
    THEN IsNumeral(tv) /\ IsNumeral(target)
    ELSE tv.k \in {"str", "num"} /\ target.k = tv.k

\* C14: when the scalar property is present, any string or any number of a
\* range around 0, is-before / is-after / is-on-or-before / is-on-or-after are
\* true iff value <, >, <=, >= target, and is-greater-than / is-less-than iff
\* the numeric value is > / < the numeric target; when the property is
\* absent all six are false.
C14_OrderingOperators ==
    (Evaluated /\ TheCond.operator \in OrderingOperators) =>
        /\ pc = "listed"
        /\ Absent(TaskValue) => ~Accepted
        /\ Comparable(TheCond.operator, TaskValue, TheCond.value) =>
              (Accepted <=> OrderingExpected(TheCond.operator, TaskValue, TheCond.value))

\* what the code does: the number 0 and the string '' count as absent
C14_FalsyAsAbsent ==
    (Evaluated /\ TheCond.operator \in OrderingOperators) =>
        /\ pc = "listed"
        /\ (Absent(TaskValue) \/ Falsy(TaskValue)) => ~Accepted
        /\ (~Falsy(TaskValue) /\ Comparable(TheCond.operator, TaskValue, TheCond.value)) =>
              (Accepted <=> OrderingExpected(TheCond.operator, TaskValue, TheCond.value))

(***************************************************************************)
(* The evaluator on the trees of the parser                                *)
(***************************************************************************)
StringOperators == {OpIs, OpIsNot, OpContains, OpDoesNotContain}

\* the Conditions of the tree that read a property the task does not have
LacksEvery(task, tree) ==
    \A c \in ConditionsIn(tree) : c.property \notin DOMAIN task

\* C15: for every tree parse can return and every task (each property absent,
\* a string, a number or a sequence of strings), the evaluation completes
\* with a decision and never raises; a condition on a property the task lacks
\* is evaluated as absent.
C15_NoErrorOutcome ==
    /\ pc # "crashed"
    /\ (Evaluated /\ LacksEvery(tasks[1], filterQuery)) => pc = "listed"

\* the evaluation raises only in a string operator, on a value that is not a
\* string or a task value that is a number; a lacking property never raises
C15_RaisesOnlyOffStrings ==
    /\ (pc = "crashed" /\ IsOneCond) =>
          /\ TheCond.operator \in StringOperators
          /\ TheCond.value.k # "str" \/ TaskValue.k = "num"
    /\ (Evaluated /\ LacksEvery(tasks[1], filterQuery)) => pc = "listed"

\* C16: every operator parse can put in a Condition, is-checked and
\* is-not-checked among the 14, has its own branch in the evaluator, so no
\* Condition of a parsed tree is decided by the default branch.
C16_NoDefaultBranch ==
    Returned1 => \A c \in ConditionsIn(filterQuery) : c.operator \in CaseLabels

\* the operators of the parser that have no branch are the two of the
\* boolean properties
C16_AllButChecked ==
    Returned1 =>
        \A c \in ConditionsIn(filterQuery) :
            c.operator \in CaseLabels
                \cup {<<"i","s","-","c","h","e","c","k","e","d">>,
                      <<"i","s","-","n","o","t","-","c","h","e","c","k","e","d">>}

\* an operator without a branch accepts every task, whatever the value
C16_DefaultAccepts ==
    (Evaluated /\ TheCond.operator \notin CaseLabels) => Accepted

(***************************************************************************)
(* The nodes of a tree                                                     *)
(***************************************************************************)
\* the Groups of a tree below the node, the node included
RECURSIVE GroupsIn(_)
GroupsIn(node) ==
    IF node.type # "group" THEN {}
    ELSE {node} \cup UNION {GroupsIn(node.children[i]) : i \in DOMAIN node.children}

ConditionFields == {"type", "id", "property", "operator", "value"}
GroupFields == {"type", "id", "conjunction", "children"}

\* C17: every node of a tree parse returns has the fields of the data model:
\* a Condition has type, id, property, operator, value; a Group, the root
\* and every nested Group alike, has type, id, conjunction in {and, or} and
\* children.
C17_WireShape ==
    Returned1 =>
        /\ \A c \in ConditionsIn(filterQuery) : DOMAIN c = ConditionFields
        /\ \A g \in GroupsIn(filterQuery) :
              /\ DOMAIN g = GroupFields
              /\ g.conjunction \in {"and", "or"}

\* what the trees have: everything but the id of the nested Groups
C17_NestedWithoutId ==
    Returned1 =>
        /\ \A c \in ConditionsIn(filterQuery) : DOMAIN c = ConditionFields
        /\ DOMAIN filterQuery = GroupFields
        /\ \A g \in GroupsIn(filterQuery) :
              /\ g.conjunction \in {"and", "or"}
              /\ g # filterQuery => DOMAIN g = GroupFields \ {"id"}

\* the Conditions of a tree from left to right
RECURSIVE ConditionSeq(_)
RECURSIVE ConditionSeqOf(_, _)
ConditionSeq(node) ==
    IF node.type = "condition" THEN <<node>> ELSE ConditionSeqOf(node.children, 1)
ConditionSeqOf(children, i) ==
    IF i > Len(children) THEN <<>>
    ELSE ConditionSeq(children[i]) \o ConditionSeqOf(children, i + 1)

IdsDiffer(cs) == \A i, j \in DOMAIN cs : i # j => cs[i].id # cs[j].id

\* C18: in one tree returned by one parse call, any two distinct Condition
\* nodes have different ids.
C18_IdUniqueness ==
    Returned1 => IdsDiffer(ConditionSeq(filterQuery))

\* the ids differ when the draws of Math.random() do
C18_UniqueWhenDrawsDiffer ==
    (Returned1 /\ \A i, j \in DOMAIN random : i # j => random[i] # random[j]) =>
        IdsDiffer(ConditionSeq(filterQuery))

\* the tree with every id replaced by another value, as a copy made from the
\* JSON form or a second parse of the same expression has
RECURSIVE Reidentified(_)
RECURSIVE ReidentifiedAll(_, _)
Reidentified(node) ==
    IF node.type = "condition" THEN [node EXCEPT !.id = [copy |-> node.id]]
    ELSE IF node.type # "group" THEN node
    ELSE IF "id" \in DOMAIN node
    THEN [node EXCEPT !.id = [copy |-> node.id],
                      !.children = ReidentifiedAll(node.children, 1)]
    ELSE [node EXCEPT !.children = ReidentifiedAll(node.children, 1)]
ReidentifiedAll(children, i) ==
    IF i > Len(children) THEN <<>>
    ELSE <<Reidentified(children[i])>> \o ReidentifiedAll(children, i + 1)

\* C19: two trees that differ only in their id values select the same tasks
\* from any task sequence.
C19_IdsDoNotAffectEvaluation ==
    Evaluated =>
        /\ Reidentified(filterQuery) # filterQuery
        /\ queryTasks(Reidentified(filterQuery), tasks) = listing

\* a tree of two Conditions has kept some and dropped some of three tasks
C19_Witness ==
    /\ pc = "listed"
    /\ Len(filterQuery.children) = 2
    /\ Len(tasks) = 3
    /\ Len(listing.tasks) \in {1, 2}

(***************************************************************************)
(* The documented examples                                                 *)
(***************************************************************************)
\* archived:not-checked AND status:not:done
LastHelpExample ==
    <<"a","r","c","h","i","v","e","d",":","n","o","t","-","c","h","e","c","k","e","d"," ","A","N","D"," ","s","t","a","t","u","s",":","n","o","t",":","d","o","n","e">>

\* C20: every example expression the documentation offers is accepted by
\* parse: each line of the Examples of getHelpText, the last one included,
\* and each --filter expression of the README's Filter Syntax section.
C20_ExamplesParse ==
    (pc # "start" /\ expression \in HelpExamples \cup ReadmeExamples) => Returned1

\* every example but the last of the help text parses; that one is rejected
\* for the operator `not`
C20_AllButLastHelpExample ==
    /\ LastHelpExample \in HelpExamples
    /\ (pc # "start" /\ expression \in (HelpExamples \cup ReadmeExamples) \ {LastHelpExample}) =>
          Returned1
    /\ (pc # "start" /\ expression = LastHelpExample) =>
          FailsWith("Unknown operator: ", <<"n","o","t">>)

(***************************************************************************)
(* Token kinds in a condition                                              *)
(***************************************************************************)
\* the tokens of the expression, when tokenize returns them
TokensOf(e) == tokenize(e).tokens

IsValueKind(t) == t.type \in {"IDENTIFIER", "STRING"}

\* the expression starts as a condition does (IDENTIFIER, COLON), and the
\* token after the first colon, or the one after the second colon, is
\* neither an IDENTIFIER nor a STRING
HasWrongKind(ts) ==
    /\ Len(ts) >= 3
    /\ ts[1].type = "IDENTIFIER"
    /\ ts[2].type = "COLON"
    /\ \/ ~IsValueKind(ts[3])
       \/ Len(ts) >= 5 /\ ts[4].type = "COLON" /\ ~IsValueKind(ts[5])

\* C21: in a condition the token after the first colon, and the token after
\* the second colon when present, must be an IDENTIFIER or a STRING; with a
\* LOGICAL token, a COLON or a parenthesis in that position (tags:or,
\* status::x, status:( ) the parse fails and no Condition is created.
C21_TokenKinds ==
    (pc # "start" /\ tokenize(expression).ok /\ HasWrongKind(TokensOf(expression))) =>
        /\ pc = "failed"
        /\ filterQuery = NoQuery

\* what the code does: the text of the token is taken whatever its kind, so
\* the only conditions of these that fail are those whose operator position
\* holds a text that is no operator, or that end at the second colon
C21_KindNotRead ==
    (pc # "start" /\ tokenize(expression).ok
        /\ HasWrongKind(TokensOf(expression)) /\ pc = "failed") =>
        \/ FailsWith("Unknown operator: ", TokensOf(expression)[3].value)
        \/ FailsWith("Expected value after operator", <<>>)

(***************************************************************************)
(* Values of the Conditions                                                *)
(***************************************************************************)
CheckedOperators == {<<"i","s","-","c","h","e","c","k","e","d">>, <<"i","s","-","n","o","t","-","c","h","e","c","k","e","d">>}

\* C22: every Condition returned by parse whose operator is is-checked or
\* is-not-checked has value null, whether the operator was inferred from a
\* boolean property or written explicitly (canonical name or the alias
\* checked / not-checked) on a property of any value-kind.
C22_CheckedValueNull ==
    Returned1 =>
        \A c \in ConditionsIn(filterQuery) :
            c.operator \in CheckedOperators => c.value = Null

\* what the code does: the value is null on a boolean property, whatever the
\* operator, and whenever the operator was inferred; on a property of
\* another kind an explicit is-checked keeps the value written
C22_NullOnBooleanOnly ==
    (Returned1 /\ IsOneCond) =>
        \A c \in ConditionsIn(filterQuery) :
            /\ IsBooleanKey(c.property) => c.value = Null
            /\ (c.operator \in CheckedOperators /\ ~IsBooleanKey(c.property)) =>
                  /\ IsThreePart
                  /\ c.value # Null
                  /\ ~IsNumericKey(c.property) => c.value = Str(Unquoted(ValueText))

\* the number JavaScript reads from a text (parseFloat), NaN when it
\* reads none, for the value texts of the runs
NumberRead ==
       (<<"3","0">> :> Num(30, 0))
    @@ (<<"3","0","a","b","c">> :> Num(30, 0))
    @@ (<<"-","1",".","5">> :> Num(-15, -1))
    @@ (<<".","5">> :> Num(5, -1))
    @@ (<<"1","e","2">> :> Num(100, 0))
    @@ (<<"1",".","2",".","3">> :> Num(12, -1))
    @@ (<<" ","3","0">> :> Num(30, 0))
    @@ (<<"I","n","f","i","n","i","t","y">> :> Infinity(FALSE))
    @@ (<<"a","b","c">> :> NaN)
    @@ (<<"e","5">> :> NaN)
    @@ (<<"-">> :> NaN)
    @@ (<<>> :> NaN)
    @@ (<<"m","e","e","t","i","n","g"," ","n","o","t","e","s">> :> NaN)
    @@ (<<"i","t","'","s">> :> NaN)

\* title:contains:"meeting notes"
MeetingNotesInput == <<"t","i","t","l","e",":","c","o","n","t","a","i","n","s",":","\"","m","e","e","t","i","n","g"," ","n","o","t","e","s","\"">>

\* the text of the last token: the value as the tokenizer hands it on
RawValue(e) == TokensOf(e)[Len(TokensOf(e))].value

\* the property as written, resolved by the documented alias table
WrittenProperty(e) == CanonicalOf(TokensOf(e)[1].value)

TheChild == filterQuery.children[1]

\* C23: in every Condition returned by parse the value of a numeric-kind
\* property (timeEstimate) is a number, for every operator, and a text that
\* does not parse as a number is rejected with invalid numeric value; for
\* text, select, date and special properties the value is the raw token text
\* unchanged, so a quoted value keeps its embedded spaces
\* (title:contains:"meeting notes" yields the value `meeting notes`).
C23_ValueConversion ==
    /\ Returned1 =>
          \A c \in ConditionsIn(filterQuery) :
              IsNumericKey(c.property) => c.value.k \in {"num", "inf"}
    /\ (pc # "start" /\ expression \in ValueInputs
          /\ IsNumericKey(WrittenProperty(expression))) =>
          IF NumberRead[RawValue(expression)] = NaN
          THEN FailsWith("Invalid numeric value: ", RawValue(expression))
          ELSE Returned1 /\ TheChild.value = NumberRead[RawValue(expression)]
    /\ (pc # "start" /\ expression \in ValueInputs
          /\ ~IsNumericKey(WrittenProperty(expression))
          /\ ~IsBooleanKey(WrittenProperty(expression))) =>
          /\ Returned1
          /\ TheChild.value = Str(RawValue(expression))
    /\ (pc # "start" /\ expression = MeetingNotesInput) =>
          TheChild.value = Str(<<"m","e","e","t","i","n","g"," ","n","o","t","e","s">>)

\* estimate:is-empty:-1.5 has been parsed: the value is the number -1.5
C23_Witness ==
    /\ pc = "parsed"
    /\ expression = <<"e","s","t","i","m","a","t","e",":","i","s","-","e","m","p","t","y",":","-","1",".","5">>
    /\ TheChild.operator = <<"i","s","-","e","m","p","t","y">>
    /\ TheChild.value = Num(-15, -1)

(***************************************************************************)
(* The order of the checks                                                 *)
(***************************************************************************)
\* the error createCondition's checks give a condition written as
\* property, operator ("" when there is none) and raw value: the first of
\* property, operator, value that fails; "none" when all pass
FirstFailure(p, o, v) ==
    IF CanonicalOf(p) \notin SchemaKeys THEN [message |-> "Unknown property: ", detail |-> p]
    ELSE IF o # <<>> /\ ~ResolvesToValid(o) THEN [message |-> "Unknown operator: ", detail |-> o]
    ELSE IF IsNumericKey(CanonicalOf(p)) /\ NumberRead[v] = NaN
    THEN [message |-> "Invalid numeric value: ", detail |-> v]
    ELSE [message |-> "none", detail |-> <<>>]

NoFailure == [message |-> "none", detail |-> <<>>]

\* the failure of a condition piece, read from its text
FailureOf(piece) ==
    FirstFailure(Fields(piece)[1],
                 IF Len(Fields(piece)) = 3 THEN Fields(piece)[2] ELSE <<>>,
                 Fields(piece)[Len(Fields(piece))])

\* the failure of the leftmost condition piece that has one
RECURSIVE LeftmostFailure(_)
LeftmostFailure(ps) ==
    IF ps = <<>> THEN NoFailure
    ELSE IF Head(ps) \in Connectives \cup {LP, RP} THEN LeftmostFailure(Tail(ps))
    ELSE IF FailureOf(Head(ps)) # NoFailure THEN FailureOf(Head(ps))
    ELSE LeftmostFailure(Tail(ps))

AtChar == expression[pos + 1]
Turning == pc = "tokenizing" /\ pos < Len(expression)

\* the run of backslashes that ends at position j, inside the quoted string
\* opened at position open
RECURSIVE BackslashRun(_, _, _)
BackslashRun(e, open, j) ==
    IF j > open /\ e[j] = "\\" THEN 1 + BackslashRun(e, open, j - 1) ELSE 0

\* the character at j is taken as text by the backslash before it
IsEscaped(e, open, j) == BackslashRun(e, open, j - 1) % 2 = 1

\* the positions of the quote character that close the string opened at open
ClosesAt(e, open) ==
    {j \in (open + 1)..Len(e) : e[j] = e[open] /\ ~IsEscaped(e, open, j)}

\* the first of them
CloseOf(e, open) == CHOOSE j \in ClosesAt(e, open) : \A k \in ClosesAt(e, open) : j <= k

\* the characters of e from lo to hi, without the backslashes that escape
RECURSIVE TextBetween(_, _, _, _)
TextBetween(e, open, lo, hi) ==
    IF lo > hi THEN <<>>
    ELSE IF e[lo] = "\\" /\ ~IsEscaped(e, open, lo) THEN TextBetween(e, open, lo + 1, hi)
    ELSE <<e[lo]>> \o TextBetween(e, open, lo + 1, hi)

\* C25: a run opened by " or ' yields one STRING token whose text is every
\* character up to the first unescaped occurrence of the same quote
\* character; a backslash makes the next character part of the text and is
\* itself dropped, so an escaped quote does not close the string and the
\* other quote character is ordinary text; if the input ends before the
\* closing quote, tokenizing fails with unterminated string, no tokens returned.
C25_QuotedStrings ==
    [][(Turning /\ AtChar \in {"\"", "'"}) =>
          IF ClosesAt(expression, pos + 1) = {}
          THEN /\ pc' = "failed"
               /\ lexed' = <<>>
               /\ error' = [message |-> "Unterminated quoted string", detail |-> <<>>,
                            wrapped |-> TRUE]
          ELSE /\ pc' = "tokenizing"
               /\ pos' = CloseOf(expression, pos + 1)
               /\ lexed' = Append(lexed,
                     Token("STRING", TextBetween(expression, pos + 1, pos + 2,
                                                 CloseOf(expression, pos + 1) - 1)))]_vars

\* "\"'" has been tokenized: one STRING token, whose text is "'
C25_Witness ==
    /\ pc = "tokenized"
    /\ expression = <<"\"", "\\", "\"", "'", "\"">>
    /\ lexed = <<Token("STRING", <<"\"", "'">>)>>

\* the step-wise run ends as the call of parse does
StepwiseAgrees ==
    /\ pc = "tokenized" => tokenize(expression) = [ok |-> TRUE, tokens |-> lexed, error |-> NoError]
    /\ pc \in {"parsed", "failed"} =>
          /\ OutcomeOf(expression).ok = (pc = "parsed")
          /\ OutcomeOf(expression).query = filterQuery
          /\ OutcomeOf(expression).error = error

\* [A-Za-z0-9_.-]
WordChars ==
    {"a","b","c","d","e","f","g","h","i","j","k","l","m","n","o","p","q","r","s","t","u",
     "v","w","x","y","z","A","B","C","D","E","F","G","H","I","J","K","L","M","N","O","P",
     "Q","R","S","T","U","V","W","X","Y","Z","0","1","2","3","4","5","6","7","8","9",
     "_", ".", "-"}

\* the positions from k on up to which every character is a word character
RunEnds(e, k) == {j \in k..Len(e) : \A n \in k..j : e[n] \in WordChars}

\* the end of the maximal run of word characters that starts at k
RunEnd(e, k) == CHOOSE j \in RunEnds(e, k) : \A n \in RunEnds(e, k) : n <= j

IsAnd(run) ==
    Len(run) = 3 /\ run[1] \in {"A", "a"} /\ run[2] \in {"N", "n"} /\ run[3] \in {"D", "d"}
IsOr(run) == Len(run) = 2 /\ run[1] \in {"O", "o"} /\ run[2] \in {"R", "r"}

\* the token of a run of word characters
TokenOfRun(run) ==
    IF IsAnd(run) THEN Token("LOGICAL", <<"a","n","d">>)
    ELSE IF IsOr(run) THEN Token("LOGICAL", <<"o","r">>)
    ELSE Token("IDENTIFIER", run)

\* C26: every maximal run of characters from [A-Za-z0-9_.-] outside quotes
\* yields exactly one token, LOGICAL with value and / or iff the run equals
\* AND / OR in any letter case, otherwise IDENTIFIER with the run's text
\* unchanged; a quoted AND / OR is a STRING, never LOGICAL; white space
\* yields no token, and tokens keep source order.
C26_WordTokens ==
    [][/\ (Turning /\ AtChar \in WordChars) =>
            /\ pos = 0 \/ expression[pos] \notin WordChars \/ lexed[Len(lexed)].type = "STRING"
            /\ pc' = "tokenizing"
            /\ pos' = RunEnd(expression, pos + 1)
            /\ lexed' = Append(lexed,
                  TokenOfRun(SubSeq(expression, pos + 1, RunEnd(expression, pos + 1))))
       /\ (Turning /\ AtChar \in {"\"", "'"} /\ pc' = "tokenizing") =>
            /\ Len(lexed') = Len(lexed) + 1
            /\ lexed'[Len(lexed')].type = "STRING"
       /\ (Turning /\ AtChar \in {" ", "\t", "\n"}) =>
            /\ pc' = "tokenizing"
            /\ pos' = pos + 1
            /\ lexed' = lexed
       /\ (Turning /\ pc' = "tokenizing") =>
            /\ pos' > pos
            /\ SubSeq(lexed', 1, Len(lexed)) = lexed]_vars

\* Or"OR" has been tokenized: the connective or, and the quoted OR as a STRING
C26_Witness ==
    /\ pc = "tokenized"
    /\ expression = <<"O","r","\"","O","R","\"">>
    /\ lexed = <<Token("LOGICAL", <<"o","r">>), Token("STRING", <<"O","R">>)>>

\* a run that joins into a connective: AN followed by D
C26_JoinedRun ==
    (pc = "tokenized" /\ expression = <<"A","N","D",":","(">>) =>
        lexed = <<Token("LOGICAL", <<"a","n","d">>), Token("COLON", <<":">>),
                  Token("(", <<"(">>)>>

(***************************************************************************)
(* Arity of the Groups                                                     *)
(***************************************************************************)
\* the Groups below a node, the node itself left out
NestedGroupsIn(node) ==
    IF node.type = "group"
    THEN UNION {GroupsIn(node.children[k]) : k \in DOMAIN node.children}
    ELSE {}

\* the expression is a well-formed expression inside one more pair of parentheses
IsParenthesized(ps) ==
    /\ Len(ps) >= 3
    /\ ps[1] = LP
    /\ ps[Len(ps)] = RP
    /\ SubSeq(ps, 2, Len(ps) - 1) \in WellFormed

Inside(ps) == SubSeq(ps, 2, Len(ps) - 1)

\* C27: in every tree parse returns the root Group has at least one child
\* and every other Group at least two; parentheses around a single condition
\* or around an already parenthesized expression add no node: (A) parses to
\* the tree of A, ((A OR B)) to the tree of A OR B.
C27_GroupArity ==
    /\ Returned1 =>
          /\ filterQuery.type = "group"
          /\ Len(filterQuery.children) >= 1
          /\ \A g \in NestedGroupsIn(filterQuery) : Len(g.children) >= 2
    /\ (pc # "start" /\ IsParenthesized(Words(expression))) =>
          /\ Returned1
          /\ filterQuery = OutcomeOf(Render(Inside(Words(expression)))).query

\* ( ( status:done OR tags:a ) ) has been parsed to the or-Group of two Conditions
C27_Witness ==
    /\ pc = "parsed"
    /\ Words(expression) = <<LP, LP, CondStatus, OR, CondTags, RP, RP>>
    /\ filterQuery.conjunction = "or"
    /\ Len(filterQuery.children) = 2
    /\ \A k \in 1..2 : filterQuery.children[k].type = "condition"

(***************************************************************************)
(* Flat and nested Groups                                                  *)
(***************************************************************************)
\* the children of a flat Group nested pairwise from the left:
\* [A, B, C] becomes [c[A, B], C]
RECURSIVE NestLeft(_, _)
NestLeft(c, ch) ==
    IF Len(ch) <= 2 THEN ch
    ELSE <<Group(c, NestLeft(c, SubSeq(ch, 1, Len(ch) - 1))), ch[Len(ch)]>>

\* and from the right: [A, B, C] becomes [A, c[B, C]]
RECURSIVE NestRight(_, _)
NestRight(c, ch) ==
    IF Len(ch) <= 2 THEN ch
    ELSE <<ch[1], Group(c, NestRight(c, Tail(ch)))>>

NestedLeft(g) == [g EXCEPT !.children = NestLeft(g.conjunction, g.children)]
NestedRight(g) == [g EXCEPT !.children = NestRight(g.conjunction, g.children)]

IsFlatOfThree ==
    /\ filterQuery.type = "group"
    /\ filterQuery.conjunction \in {"and", "or"}
    /\ Len(filterQuery.children) >= 3

\* C28: for every task and all nodes A, B, C the flat Group and[A, B, C]
\* gives the same decision as and[and[A, B], C] and and[A, and[B, C]], and
\* likewise for or: the flat tree selects the same tasks as the
\* pairwise-nested tree.
C28_FlatAsNested ==
    (Evaluated /\ IsFlatOfThree) =>
        /\ NestedLeft(filterQuery) # filterQuery
        /\ NestedRight(filterQuery) # filterQuery
        /\ queryTasks(NestedLeft(filterQuery), tasks) = listing
        /\ queryTasks(NestedRight(filterQuery), tasks) = listing

\* and[status is done, tags contains a, <other>] has dropped a task whose
\* status is done, for its tags
C28_Witness ==
    /\ pc = "listed"
    /\ filterQuery.conjunction = "and"
    /\ filterQuery.children = <<LeafStatus, LeafTags, LeafOther>>
    /\ tasks[1][<<"s","t","a","t","u","s">>] = Str(<<"d","o","n","e">>)
    /\ listing.tasks = <<>>

(***************************************************************************)
(* Termination                                                             *)
(***************************************************************************)
InTokenizer == pc \in {"tokenizing", "string", "word"}

\* the iteration-by-iteration run ends as the call of parse does
LoopsAgree ==
    /\ pc = "tokenized" => tokenize(expression) = [ok |-> TRUE, tokens |-> lexed, error |-> NoError]
    /\ pc \in {"parsed", "failed"} =>
          /\ OutcomeOf(expression).ok = (pc = "parsed")
          /\ OutcomeOf(expression).query = filterQuery
          /\ OutcomeOf(expression).error = error

\* the tokens from the k-th on
TokensFrom(k) == SubSeq(lexed, k, Len(lexed))

\* a parser function's outcome r on the tokens ts: it threw, or it returned
\* with fewer tokens left
Removes(r, ts) == r.ok => Len(r.tokens) < Len(ts)

IsLogical(t, v) == t.type = "LOGICAL" /\ t.value = v

\* on the tokens from any position on: a call of parsePrimaryExpression (and
\* so of parseAndExpression and parseOrExpression) that returns has removed a
\* token, two and more when it opened a parenthesis, and so has an iteration
\* of the and-loop and of the or-loop
ParserRemoves ==
    \A k \in 1..Len(lexed) :
        /\ Removes(parsePrimaryExpression(TokensFrom(k), CondIds), TokensFrom(k))
        /\ Removes(parseAndExpression(TokensFrom(k), CondIds), TokensFrom(k))
        /\ Removes(parseOrExpression(TokensFrom(k), CondIds), TokensFrom(k))
        /\ (lexed[k].type = "(" /\ parsePrimaryExpression(TokensFrom(k), CondIds).ok) =>
              Len(parsePrimaryExpression(TokensFrom(k), CondIds).tokens) <= Len(lexed) - k - 2
        /\ IsLogical(lexed[k], <<"a","n","d">>) =>
              Removes(AndLoop(<<NoNode>>, TokensFrom(k), CondIds), Tail(TokensFrom(k)))
        /\ IsLogical(lexed[k], <<"o","r">>) =>
              Removes(OrLoop(<<NoNode>>, TokensFrom(k), CondIds), Tail(TokensFrom(k)))

\* C29: for every finite input tokenize and parse finish, with a tree or an
\* error: each iteration of the tokenizer's loops advances the input index
\* by at least one character, each iteration of the or/and loops and each
\* call of parsePrimaryExpression that returns removes at least one token,
\* and recursion happens only after a ( has been consumed.
C29_Termination ==
    /\ [][/\ (pc = "string" /\ pc' = "string") => pos' > pos
          /\ (pc = "word" /\ pc' = "word") => pos' > pos
          /\ (pc = "tokenizing" /\ pc' = "tokenizing") => pos' > pos
          /\ (pc = "tokenizing" /\ pc' = "string") => pos' > pos
          /\ (pc = "string" /\ pc' = "tokenizing") => pos' > pos
          /\ (pc = "tokenizing" /\ pc' = "word") => buffer' = <<>>
          /\ (pc = "word" /\ pc' = "tokenizing") =>
                /\ buffer # <<>>
                /\ pos >= Len(buffer)
                /\ SubSeq(expression, pos - Len(buffer) + 1, pos) = buffer
          /\ InTokenizer' => pos' <= Len(expression)]_vars
    /\ [](pc = "tokenized" => ParserRemoves)
    /\ <>(pc \in {"parsed", "failed"})

\* ( status:done OR tags:a ) has been tokenized, in 9 tokens, and parsed
C29_Witness ==
    /\ pc = "parsed"
    /\ Words(expression) = <<LP, CondStatus, OR, CondTags, RP>>
    /\ pos = Len(expression)
    /\ Len(lexed) = 9
    /\ filterQuery.conjunction = "or"

(***************************************************************************)
(* Result counters                                                         *)
(***************************************************************************)
\* L: filterQuery.limit, or 200 when the tree has none
LimitL == IF "limit" \in DOMAIN filterQuery THEN filterQuery.limit ELSE 200

\* the fetched tasks the root Group is true of, in fetch order
MatchingTasks == SelectSeq(tasks, LAMBDA task : RootTrue(task))

Smaller(a, b) == IF a < b THEN a ELSE b

\* the first L matching tasks in fetch order
FirstMatching == SubSeq(MatchingTasks, 1, Smaller(LimitL, Len(MatchingTasks)))

\* what queryTasks returned: the first L matching tasks and the two counters
CountersOfResult ==
    /\ listing.tasks = FirstMatching
    /\ listing.total = Len(tasks)
    /\ listing.filtered = Len(listing.tasks)

\* the JSON output after the handler's own cut
CountersOfOutput ==
    /\ jsonOutput.count = Len(jsonOutput.tasks)
    /\ jsonOutput.count <= jsonOutput.filtered
    /\ jsonOutput.filtered <= jsonOutput.total
    /\ jsonOutput.count <= 200

\* C30: for every fetched task sequence and every filter tree, queryTasks
\* returns the first L selected tasks in fetch order (L the tree's limit, 200
\* without one), with total the number of tasks fetched and filtered the
\* number returned; after the handler's --limit, the JSON output has
\* count <= filtered <= total and count <= 200.
C30_ResultCounters ==
    /\ Evaluated => pc = "listed" /\ CountersOfResult
    /\ pc = "printed" => CountersOfOutput

\* where queryTasks returns, C30's counters are as stated
C30_WhereListed ==
    /\ pc = "listed" => CountersOfResult
    /\ pc = "printed" => CountersOfOutput

\* both cuts made: 201 fetched, 200 returned, 2 printed
C30_BothCuts ==
    /\ pc = "printed"
    /\ jsonOutput.total = 201
    /\ jsonOutput.filtered = 200
    /\ jsonOutput.count = 2

\* a limit of the tree cuts the result, which --limit -1 cuts from the end
C30_TreeLimit ==
    /\ pc = "printed"
    /\ "limit" \in DOMAIN filterQuery
    /\ jsonOutput.total = 3
    /\ jsonOutput.filtered = 2
    /\ jsonOutput.count = 1

====
